---- MODULE Spec2Model ----
(***************************************************************************)
(* Chest-pain pathway simulator.                                           *)
(*                                                                         *)
(*   src/Deploy/simulation.py   ESC 0h/1h shift runner (run_shift,         *)
(*                              apply_esc_guidelines)                      *)
(*   src/Deploy/main.py         waterfall shift runner and its Streamlit   *)
(*                              page (session_state, tabs)                 *)
(*   src/chest_pain_sim.py      single-test Streamlit page                 *)
(*                                                                         *)
(* random.random() is a nondeterministic draw: a double k * 2^-53 with     *)
(* 0 <= k < 2^53.  Where the code compares the draw with a probability the *)
(* draw is kept exactly, as a two-limb numerator; where the code compares  *)
(* rand = random.random() * 100 with whole numbers, rand's integer part is *)
(* kept.                                                                   *)
(* Dictionary keys with a blank ("Patient ID", "HEART Score") are written  *)
(* with an underscore.  Money is in pounds; the kit and test costs are      *)
(* whole numbers, the waiting cost and the total are the doubles the code   *)
(* computes.                                                               *)
(***************************************************************************)
EXTENDS Integers, Sequences, FiniteSets

VARIABLES
    pc,                  \* position of the running script or function
    args,                \* arguments of the run_shift call in progress
    p,                   \* patient of the current iteration / evaluation
    draw,                \* run_shift: the generator's draws of the iterations
                         \* so far; elsewhere the draws of the evaluation
    verdict,             \* (outcome, action, wait) returned by the evaluator
    results_log,         \* run_shift: list of patient records
    beds_blocked_count,  \* run_shift: running count of blocked beds
    total_wait_minutes,  \* run_shift: running sum of waits
    total_kit_cost,      \* run_shift (waterfall): running kit cost
    daily_cp_volume,     \* run_shift: number of patients to simulate
    returned,            \* run_shift: (df, financials, daily_cp_volume)
    widgets,             \* Streamlit page: current value of every sidebar widget
    session_state,       \* Streamlit page: st.session_state
    page,                \* Streamlit page: what the last script run rendered
    run_widgets,         \* history: the widget values of the last RUN SIMULATION
    changes              \* number of widget changes made so far

vars == << pc, args, p, draw, verdict, results_log, beds_blocked_count,
           total_wait_minutes, total_kit_cost, daily_cp_volume, returned,
           widgets, session_state, page, run_widgets, changes >>

runVars == << results_log, beds_blocked_count, total_wait_minutes,
              total_kit_cost, daily_cp_volume, returned >>

uiVars == << widgets, session_state, page, run_widgets, changes >>

----------------------------------------------------------------------------
(* Bounds of the model *)

\* Largest daily_cp_volume a shift is run with under every combination of
\* thresholds and destinations (Spec).
MaxPatients == 1

\* Largest daily_cp_volume a shift is run with under the default thresholds
\* (SpecShift).
MaxShiftPatients == 2

\* Largest number of widget changes in one page session.
MaxChanges == 2

\* Largest daily_cp_volume the RUN SIMULATION button is pressed with.
MaxPagePatients == 2

\* Number of combinations of HEART score, base_trop and delta a patient of
\* each condition is drawn from: the first 8 are the combinations of the
\* ends of the three ranges.
MaxCombos == 8

\* Number of different patients a page run of main.py draws from.
MaxPageDraws == 8

\* Number of different patients a page run of chest_pain_sim.py draws from.
MaxSimDraws == 8

\* Number of patients at the head of a shift of SpecCount whose draws are
\* chosen among those of a page run.
MaxCountFree == 1

----------------------------------------------------------------------------
(* Values the inputs are drawn from *)

Platforms == {"Central Lab", "Point of Care (POC)"}

Destinations == {"GP Surgery", "Virtual Ward", "RACPC Clinic"}

\* random.randint(lo, hi): any integer of lo..hi, both ends included.
randint(lo, hi) == lo..hi

\* random.choices([0,1,2,3,4,5], weights=[30,30,20,10,5,5])[0]: every weight
\* is positive, so every value of the population can be drawn.
choices_heart == 0..5

\* rand = random.random() * 100 lies in [0, 100) and the generator compares
\* it with whole numbers only, so its integer part decides the band.
random100 == 0..99

\* random.random() where the code compares it with a probability.  The draw
\* k * 2^-53 is kept as << hi, lo >>, the numerator hi * 2^28 + lo of the
\* draw over 2^56 (lo a multiple of 8), so that the doubles of the
\* probabilities (0.15 is a multiple of 2^-55) are numerators as well.
\* 2^0 .. 2^30
pow2_table ==
    << 1, 2, 4, 8, 16, 32, 64, 128, 256, 512, 1024, 2048, 4096, 8192,
       16384, 32768, 65536, 131072, 262144, 524288, 1048576, 2097152,
       4194304, 8388608, 16777216, 33554432, 67108864, 134217728,
       268435456, 536870912, 1073741824 >>

pow2(n) == pow2_table[n + 1]

limb == pow2(28)

random_min == << 0, 0 >>

random_max == << limb - 1, limb - 8 >>

\* The double a probability literal denotes, prob100 being the literal in
\* hundredths: 0.15 = 0x1.3333333333333p-3, 0.35 = 0x1.6666666666666p-2,
\* 0.40 = 0x1.999999999999ap-2, 0.5 = 0x1p-1, 0.85 = 0x1.b333333333333p-1,
\* 0.90 = 0x1.ccccccccccccdp-1.
prob_double(prob100) ==
    CASE prob100 = 15 -> << 40265318, 107374182 >>
      [] prob100 = 35 -> << 93952409, 161061272 >>
      [] prob100 = 40 -> << 107374182, 107374184 >>
      [] prob100 = 50 -> << 134217728, 0 >>
      [] prob100 = 85 -> << 228170137, 161061272 >>
      [] prob100 = 90 -> << 241591910, 107374184 >>

\* x < y on numerators.
double_lt(x, y) == x[1] < y[1] \/ (x[1] = y[1] /\ x[2] < y[2])

\* The greatest draw below the double t and the least draw above it.
draw_below(t) ==
    IF t[2] = 0 THEN << t[1] - 1, limb - 8 >>
    ELSE << t[1], ((t[2] - 1) \div 8) * 8 >>

draw_above(t) ==
    IF (t[2] \div 8) * 8 + 8 = limb THEN << t[1] + 1, 0 >>
    ELSE << t[1], (t[2] \div 8) * 8 + 8 >>

----------------------------------------------------------------------------
(* The draws the specifications follow.  The ranges above are what the     *)
(* code can draw.  A draw the code only compares (rand, random.random())   *)
(* is followed for a value of every outcome of the comparison.  The draws  *)
(* the code stores in the patient record are followed over their whole     *)
(* ranges where one patient is followed (SpecPatient, SpecTrop), and over  *)
(* the first MaxCombos, MaxPageDraws or MaxSimDraws combinations of an     *)
(* enumeration of the whole ranges where several patients are followed.    *)

\* The k-th value of lo..hi in the order the values are followed: the two
\* ends, then every value in between.
nth_value(lo, hi, k) ==
    IF k = 0 THEN lo
    ELSE IF k = 1 THEN hi
    ELSE lo + ((k - 1) % (hi - lo + 1))

\* The ends of a range of integers.
Lo(S) == CHOOSE x \in S : (x - 1) \notin S

Hi(S) == CHOOSE x \in S : (x + 1) \notin S

\* The draws next to a probability: the greatest draw below its double, the
\* double itself when it is a draw, and the least draw above it.  Every other
\* draw compares with the probability as one of these does.
random_near(prob100) ==
    LET t == prob_double(prob100)
    IN  { draw_below(t), draw_above(t) }
            \cup (IF t[2] % 8 = 0 THEN {t} ELSE {})

\* The safety-net draw of an iteration: both runners call random.random()
\* for it inside the Unstable Angina branch only.
rescue_draws(condition) ==
    IF condition = "Unstable Angina" THEN random_near(50) ELSE {random_max}

\* The first value of rand in each band of the generator.
band_draws(acs_prevalence) ==
    { r \in random100 :
        r \in { 0, acs_prevalence, acs_prevalence + 5, acs_prevalence + 15 } }

\* The first value of rand in band b (0 NSTEMI .. 3 Non-Cardiac) of the
\* generator.
band_rand(acs_prevalence, b) ==
    CASE b = 0 -> 0
      [] b = 1 -> acs_prevalence
      [] b = 2 -> acs_prevalence + 5
      [] OTHER -> acs_prevalence + 15

----------------------------------------------------------------------------
(* Patient generator: simulation.py generate_patient_profile (main.py has   *)
(* the same function without the T3 field).                                *)

\* Variants of the banding, used to show what the band properties detect.
Condition_WideAngina(rand, acs_prevalence) ==
    IF rand < acs_prevalence THEN "NSTEMI"
    ELSE IF rand < acs_prevalence + 6 THEN "Unstable Angina"
    ELSE IF rand < acs_prevalence + 15 THEN "Chronic Injury"
    ELSE "Non-Cardiac"

Condition_NarrowChronic(rand, acs_prevalence) ==
    IF rand < acs_prevalence THEN "NSTEMI"
    ELSE IF rand < acs_prevalence + 5 THEN "Unstable Angina"
    ELSE IF rand < acs_prevalence + 14 THEN "Chronic Injury"
    ELSE "Non-Cardiac"

Condition(rand, acs_prevalence) ==
    IF rand < acs_prevalence THEN "NSTEMI"
    ELSE IF rand < acs_prevalence + 5 THEN "Unstable Angina"
    ELSE IF rand < acs_prevalence + 15 THEN "Chronic Injury"
    ELSE "Non-Cardiac"

\* Variant: Unstable Angina patients may score 3.
heart_scores_LowAngina(condition) ==
    CASE condition = "NSTEMI" -> randint(5, 10)
      [] condition = "Unstable Angina" -> randint(3, 9)
      [] condition = "Chronic Injury" -> randint(3, 8)
      [] OTHER -> choices_heart

heart_scores(condition) ==
    CASE condition = "NSTEMI" -> randint(5, 10)
      [] condition = "Unstable Angina" -> randint(4, 9)
      [] condition = "Chronic Injury" -> randint(3, 8)
      [] OTHER -> choices_heart

\* The arguments of the randint call that draws base_trop, and of the one
\* that draws delta.
base_trop_args(condition) ==
    CASE condition = "NSTEMI" -> << 20, 800 >>
      [] condition = "Unstable Angina" -> << 0, 10 >>
      [] condition = "Chronic Injury" -> << 20, 60 >>
      [] OTHER -> << 0, 6 >>

delta_args(condition) ==
    CASE condition = "NSTEMI" -> << 10, 100 >>
      [] condition = "Unstable Angina" -> << 0, 2 >>
      [] condition = "Chronic Injury" -> << 0, 3 >>
      [] OTHER -> << 0, 1 >>

base_trops(condition) ==
    randint(base_trop_args(condition)[1], base_trop_args(condition)[2])

deltas(condition) ==
    randint(delta_args(condition)[1], delta_args(condition)[2])

\* Every combination of draws one call of generate_patient_profile can
\* make: rand, then the three draws of the branch rand selects.
profile_draws(acs_prevalence, rands) ==
    UNION { [ rand : {r},
              heart_score : heart_scores(Condition(r, acs_prevalence)),
              base_trop : base_trops(Condition(r, acs_prevalence)),
              delta : deltas(Condition(r, acs_prevalence)) ] :
            r \in rands }

\* The j-th combination of the three stored draws of a patient with the
\* given condition.  The first eight are the combinations of the ends of
\* the three ranges; the later ones count through every combination of
\* the three ranges, each draw on its own digit.
combo(condition, j) ==
    LET h0 == Lo(heart_scores(condition))
        nh == Hi(heart_scores(condition)) - h0 + 1
        b0 == base_trop_args(condition)[1]
        nb == base_trop_args(condition)[2] - b0 + 1
        d0 == delta_args(condition)[1]
        nd == delta_args(condition)[2] - d0 + 1
        m == j - 8
    IN  IF j < 8
        THEN [ heart_score |-> nth_value(h0, h0 + nh - 1, (j \div 2) % 2),
               base_trop |-> nth_value(b0, b0 + nb - 1, j % 2),
               delta |-> nth_value(d0, d0 + nd - 1, (j \div 4) % 2) ]
        ELSE [ heart_score |-> h0 + ((1 + (m \div nb)) % nh),
               base_trop |-> b0 + ((1 + m) % nb),
               delta |-> d0 + ((1 + (m \div (nb * nh))) % nd) ]

\* The draws followed for the values rands of rand: the first MaxCombos
\* combinations of the branch rand selects.
sampled_draws(acs_prevalence, rands) ==
    { [ rand |-> r,
        heart_score |-> combo(Condition(r, acs_prevalence), j).heart_score,
        base_trop |-> combo(Condition(r, acs_prevalence), j).base_trop,
        delta |-> combo(Condition(r, acs_prevalence), j).delta ] :
      r \in rands, j \in 0..(MaxCombos - 1) }

\* The draws a shift is followed for: one rand in each band.
patient_draws(acs_prevalence) ==
    sampled_draws(acs_prevalence, band_draws(acs_prevalence))

\* Variants of the returned record, used to show what the troponin and
\* the numbering properties detect.
generate_patient_profile_DeltaOnly(i, acs_prevalence, d) ==
    [ Patient_ID |-> i, Condition |-> Condition(d.rand, acs_prevalence),
      HEART_Score |-> d.heart_score, T0 |-> d.base_trop,
      T1 |-> d.delta ]

generate_patient_profile_ZeroBased(i, acs_prevalence, d) ==
    [ Patient_ID |-> i - 1, Condition |-> Condition(d.rand, acs_prevalence),
      HEART_Score |-> d.heart_score, T0 |-> d.base_trop,
      T1 |-> d.base_trop + d.delta ]

\* The record returned for sequence number i when the draws are d.
generate_patient_profile(i, acs_prevalence, d) ==
    [ Patient_ID |-> i, Condition |-> Condition(d.rand, acs_prevalence),
      HEART_Score |-> d.heart_score, T0 |-> d.base_trop,
      T1 |-> d.base_trop + d.delta ]

\* simulation.py adds the 3h extrapolation to the record.
with_T3(q) ==
    [ Patient_ID |-> q.Patient_ID, Condition |-> q.Condition,
      HEART_Score |-> q.HEART_Score, T0 |-> q.T0, T1 |-> q.T1,
      T3 |-> q.T0 + 2 * (q.T1 - q.T0) ]

----------------------------------------------------------------------------
(* Platform table *)

\* main.py run_shift, "Platform Settings"
COST_PER_TEST(platform_type) ==
    IF platform_type = "Point of Care (POC)" THEN 30 ELSE 5

TIME_PER_TEST(platform_type) ==
    IF platform_type = "Point of Care (POC)" THEN 20 ELSE 90

\* in hundredths
AVAILABILITY(platform_type) ==
    IF platform_type = "Point of Care (POC)" THEN 90 ELSE 40

\* chest_pain_sim.py: test_cost, turnaround_time, availability_chance
test_cost(test_modality) ==
    IF test_modality = "Point of Care (POC)" THEN 30 ELSE 5

turnaround_time(test_modality) ==
    IF test_modality = "Point of Care (POC)" THEN 20 ELSE 90

\* in hundredths
availability_chance(test_modality) ==
    IF test_modality = "Point of Care (POC)" THEN 85 ELSE 35

\* The strategy_settings dictionary run_shift of simulation.py reads
\* ('availability', 'cost') for a platform.
strategy_settings(platform) ==
    [ platform |-> platform, availability |-> availability_chance(platform),
      cost |-> test_cost(platform) ]

----------------------------------------------------------------------------
(* Action strings *)

Discharge(discharge_dest) ==
    CASE discharge_dest = "GP Surgery" -> "Discharge (GP Surgery)"
      [] discharge_dest = "Virtual Ward" -> "Discharge (Virtual Ward)"
      [] OTHER -> "Discharge (RACPC Clinic)"

RapidDischarge(discharge_dest) ==
    CASE discharge_dest = "GP Surgery" -> "Rapid Discharge (GP Surgery)"
      [] discharge_dest = "Virtual Ward" -> "Rapid Discharge (Virtual Ward)"
      [] OTHER -> "Rapid Discharge (RACPC Clinic)"

\* action.startswith("Bed")
startswith_Bed(action) == action \in {"Bed Blocked (Wait)"}

\* action.startswith("Admit")
startswith_Admit(action) ==
    action \in {"Admit AMU (Serial Trop)", "Admit (High Risk Story)",
                "Admit AMU (Too High Risk)", "Admit (High Risk)",
                "Admit AMU (Observe)", "Admit AMU"}

\* "Admit" in action
contains_Admit(action) == startswith_Admit(action)

\* "Block" in action
contains_Block(action) == action \in {"Bed Blocked (Wait)"}

----------------------------------------------------------------------------
(* simulation.py: ESC 0h/1h evaluator *)

\* Variant: t0 equal to the rule_out threshold rules out.
RuleOutCondition_Inclusive(q, limits) ==
    q.T0 <= limits.rule_out \/ (q.T0 < 12 /\ (q.T1 - q.T0) < 3)

RuleOutCondition(q, limits) ==
    q.T0 < limits.rule_out \/ (q.T0 < 12 /\ (q.T1 - q.T0) < 3)

\* Variant: any rise above 1 rules in.
RuleInCondition_AnyRise(q, limits) ==
    q.T0 > limits.rule_in \/ (q.T1 - q.T0) > 1

RuleInCondition(q, limits) ==
    q.T0 > limits.rule_in \/ (q.T1 - q.T0) > 5

\* Variant: Rule In tested before Rule Out.
apply_esc_guidelines_RuleInFirst(q, limits, result_ready) ==
    IF ~result_ready
    THEN [ Outcome |-> "Pending", Action |-> "Bed Blocked (Wait)",
           Wait |-> 90 + 60 ]
    ELSE IF RuleInCondition(q, limits)
    THEN [ Outcome |-> "Rule In", Action |-> "Cath Lab/Cardiology",
           Wait |-> 60 ]
    ELSE IF RuleOutCondition(q, limits)
    THEN [ Outcome |-> "Rule Out", Action |-> "Discharge", Wait |-> 20 ]
    ELSE [ Outcome |-> "Observe", Action |-> "Admit AMU (Serial Trop)",
           Wait |-> 180 ]

apply_esc_guidelines(q, limits, result_ready) ==
    IF ~result_ready
    THEN [ Outcome |-> "Pending", Action |-> "Bed Blocked (Wait)",
           Wait |-> 90 + 60 ]
    ELSE IF RuleOutCondition(q, limits)
    THEN [ Outcome |-> "Rule Out", Action |-> "Discharge", Wait |-> 20 ]
    ELSE IF RuleInCondition(q, limits)
    THEN [ Outcome |-> "Rule In", Action |-> "Cath Lab/Cardiology",
           Wait |-> 60 ]
    ELSE [ Outcome |-> "Observe", Action |-> "Admit AMU (Serial Trop)",
           Wait |-> 180 ]

\* Variant: only Admit actions count.
esc_beds_AdmitOnly(action) ==
    IF startswith_Admit(action) THEN 1 ELSE 0

\* run_shift's bed rule (simulation.py): 1 when the action blocks a bed.
esc_beds(action) ==
    IF startswith_Bed(action) \/ startswith_Admit(action) THEN 1 ELSE 0

\* random.random() < prob and random.random() > prob, for a draw u and the
\* probability literal prob100 (in hundredths): both are strict comparisons
\* of doubles.
random_lt(u, prob100) == double_lt(u, prob_double(prob100))

random_gt(u, prob100) == double_lt(prob_double(prob100), u)

\* Variant: the doctor always spots the high HEART score.
esc_safety_net_Always(q, v, u, discharge_dest) ==
    IF q.Condition = "Unstable Angina" /\ v.Outcome = "Rule Out"
    THEN IF q.HEART_Score >= 4
         THEN [ Outcome |-> "Clinical Rescue",
                Action |-> "Admit (High Risk Story)", Wait |-> 120 ]
         ELSE [ Outcome |-> "Missed UA", Action |-> Discharge(discharge_dest),
                Wait |-> v.Wait ]
    ELSE v

\* The safety net of run_shift (simulation.py): clinical judgement on an
\* Unstable Angina patient the troponin rules discharge.
esc_safety_net(q, v, u, discharge_dest) ==
    IF q.Condition = "Unstable Angina" /\ v.Outcome = "Rule Out"
    THEN IF q.HEART_Score >= 4 /\ random_lt(u, 50)
         THEN [ Outcome |-> "Clinical Rescue",
                Action |-> "Admit (High Risk Story)", Wait |-> 120 ]
         ELSE [ Outcome |-> "Missed UA", Action |-> Discharge(discharge_dest),
                Wait |-> v.Wait ]
    ELSE v

\* Variant: the appended record carries the 3h extrapolation as T1.
p_data_Extrapolated(q, v) ==
    [ Patient_ID |-> q.Patient_ID, Condition |-> q.Condition,
      HEART_Score |-> q.HEART_Score, T0 |-> q.T0, T1 |-> q.T3, T3 |-> q.T3,
      Outcome |-> v.Outcome, Action |-> v.Action, Wait |-> v.Wait ]

\* The record appended for patient q: p_data.update({...}).
p_data(q, v) ==
    [ Patient_ID |-> q.Patient_ID, Condition |-> q.Condition,
      HEART_Score |-> q.HEART_Score, T0 |-> q.T0, T1 |-> q.T1, T3 |-> q.T3,
      Outcome |-> v.Outcome, Action |-> v.Action, Wait |-> v.Wait ]

\* int(volume * (chest_pain_pct / 100)) in IEEE double arithmetic, for
\* volume >= 0 and chest_pain_pct in 0..100.
\*
\* chest_pain_pct / 100 is rounded to the nearest double: with
\* 2^-n <= pct/100 < 2^(1-n) its mantissa is pct * 2^(52+n) / 100 rounded
\* to an integer, so the rounding error, in hundredths of a unit in the
\* last place, is given by the residue of pct * 2^(52+n) modulo 100.
RECURSIVE pow2mod100(_)
pow2mod100(s) == IF s = 0 THEN 1 ELSE (2 * pow2mod100(s - 1)) % 100

\* The least n with pct * 2^n >= 100 (pct >= 1).
RECURSIVE pct_exponent(_, _)
pct_exponent(pct, n) ==
    IF pct * pow2(n) >= 100 THEN n ELSE pct_exponent(pct, n + 1)

\* The greatest e with 2^e <= k (k >= 1).
RECURSIVE floor_log2(_, _)
floor_log2(k, e) == IF pow2(e + 1) > k THEN e ELSE floor_log2(k, e + 1)

\* fl(pct / 100) - pct / 100, in hundredths of a unit in the last place.
pct_error100(pct) ==
    LET r == (pct * pow2mod100(52 + pct_exponent(pct, 0))) % 100
    IN  IF r <= 50 THEN 0 - r ELSE 100 - r

\* TRUE when volume * pct / 100 is a whole number k and the double product
\* volume * fl(pct / 100) rounds to a double below k: the product lies
\* volume * |error| * 2^-(52+n) below k, and the doubles below k are
\* spaced 2^(E-52) apart (half that when k = 2^E).
product_below(volume, pct) ==
    /\ volume > 0 /\ pct > 0
    /\ (volume * pct) % 100 = 0
    /\ pct_error100(pct) < 0
    /\ LET k == (volume * pct) \div 100
           E == floor_log2(k, 0)
           n == pct_exponent(pct, 0)
           half == IF k = pow2(E) THEN 4 ELSE 2
       IN  half * volume * (0 - pct_error100(pct)) > 100 * pow2(E + n)

\* When the exact quotient is not whole it is at least 1/100 away from a
\* whole number and the rounding cannot cross one.
cp_volume(volume, chest_pain_pct) ==
    (volume * chest_pain_pct) \div 100
        - (IF product_below(volume, chest_pain_pct) THEN 1 ELSE 0)

\* The costs are doubles as well.  An amount of pounds x is kept as the
\* pair of integers (sixtieths, error) with
\*     x = sixtieths / 60 + error * 2^-52 / 15
\* sixtieths / 60 being what the arithmetic would give without rounding.
\* Every amount met is 0 or lies in [1, 2^15), and is 1/15 of a whole
\* number of units 2^-52, namely of sixtieths * 2^50 + error.
Amount(sixtieths, error) == [ sixtieths |-> sixtieths, error |-> error ]

\* The exponent E of the amount x >= 1: 2^E <= x < 2^(E+1), where doubles
\* are 2^(E-52) apart.
amount_exponent(x) ==
    LET E == floor_log2(x.sixtieths \div 60, 0)
    IN  IF x.sixtieths = 60 * pow2(E) /\ x.error < 0 THEN E - 1 ELSE E

\* The inverse of 15 modulo 2^n, n <= 16: 15 * 4369 = 2^16 - 1.
inverse15(n) == (pow2(n) - (4369 % pow2(n))) % pow2(n)

\* The double nearest to the amount x, ties to the even mantissa.  The
\* whole number of units 2^-52 of x is error / 15 modulo 2^(E+1); its
\* residue modulo 2^E is what the rounding removes.
double_round(x) ==
    IF x.sixtieths = 0 \/ amount_exponent(x) <= 0 THEN x
    ELSE LET E == amount_exponent(x)
             v == ((x.error % pow2(E + 1)) * inverse15(E + 1)) % pow2(E + 1)
             low == v % pow2(E)
             odd == (v \div pow2(E)) % 2 = 1
             up == low > pow2(E - 1) \/ (low = pow2(E - 1) /\ odd)
         IN  Amount(x.sixtieths,
                    x.error + 15 * ((IF up THEN pow2(E) ELSE 0) - low))

\* rate / 60 for the whole number rate >= 60: the quotient is
\* rate * 2^(50-e) / 15 units 2^(e-52), rounded to a whole number of them.
double_div60(rate) ==
    LET e == floor_log2(rate \div 60, 0)
        r == ((rate % 15) * pow2((50 - e) % 4)) % 15
    IN  Amount(rate, (IF r <= 7 THEN 0 - r ELSE 15 - r) * pow2(e))

\* m * x for the whole number m >= 0.
double_times(m, x) == double_round(Amount(m * x.sixtieths, m * x.error))

\* x + k for the whole number k >= 0.
double_plus(x, k) == double_round(Amount(x.sixtieths + 60 * k, x.error))

----------------------------------------------------------------------------
(* main.py: waterfall evaluation of one patient (the body of run_shift's     *)
(* loop between the generator and the accumulation)                        *)

\* STEP 1: the T0 test; the doctor-availability penalty.
t0_wait(platform_type, u_avail) ==
    IF random_gt(u_avail, AVAILABILITY(platform_type))
    THEN TIME_PER_TEST(platform_type) + 60
    ELSE TIME_PER_TEST(platform_type)

\* Variants: the HEART score is not looked at; a HEART score of 3 is not
\* low enough.
is_safe_single_AnyHeart(q, limits) == q.T0 < limits.rule_out

is_safe_single_HeartBelow3(q, limits) ==
    q.T0 < limits.rule_out /\ q.HEART_Score < 3

\* STEP 2: is_safe_single
is_safe_single(q, limits) == q.T0 < limits.rule_out /\ q.HEART_Score <= 3

\* Variant: the final else branch missing, outcome left as initialised ("").
serial_outcome_NoElse(q, limits, discharge_dest, u_rescue) ==
    IF RuleOutCondition(q, limits)
    THEN IF q.Condition = "Unstable Angina" /\ q.HEART_Score >= 4
            /\ random_lt(u_rescue, 50)
         THEN [ Outcome |-> "Clinical Rescue", Action |-> "Admit (High Risk)",
                beds |-> 1 ]
         ELSE [ Outcome |-> "Rule Out (Serial)",
                Action |-> Discharge(discharge_dest), beds |-> 0 ]
    ELSE IF RuleInCondition(q, limits)
    THEN [ Outcome |-> "Rule In", Action |-> "Cath Lab", beds |-> 0 ]
    ELSE [ Outcome |-> "", Action |-> "", beds |-> 0 ]

\* STEP 3: the 0/1h logic with the Unstable Angina safety net.
serial_outcome(q, limits, discharge_dest, u_rescue) ==
    IF RuleOutCondition(q, limits)
    THEN IF q.Condition = "Unstable Angina" /\ q.HEART_Score >= 4
            /\ random_lt(u_rescue, 50)
         THEN [ Outcome |-> "Clinical Rescue", Action |-> "Admit (High Risk)",
                beds |-> 1 ]
         ELSE [ Outcome |-> "Rule Out (Serial)",
                Action |-> Discharge(discharge_dest), beds |-> 0 ]
    ELSE IF RuleInCondition(q, limits)
    THEN [ Outcome |-> "Rule In", Action |-> "Cath Lab", beds |-> 0 ]
    ELSE [ Outcome |-> "Grey Zone", Action |-> "Admit AMU (Observe)",
           beds |-> 1 ]

\* Variant: the hour until the 1h sample is not counted.
serial_wait_NoHour(platform_type, wait) == wait + TIME_PER_TEST(platform_type)

\* The wait of a patient sent to serial testing: the 1h sample and its result.
serial_wait(platform_type, wait) == wait + 60 + TIME_PER_TEST(platform_type)

\* beds after: if "Admit" in action or "Block" in action: beds = 1
wf_beds(action, beds) ==
    IF contains_Admit(action) \/ contains_Block(action) THEN 1 ELSE beds

\* Variant: the second kit is not charged.
kits_used_One(single_exit) == 1

\* Kits used: total_kit_cost += COST_PER_TEST once for the T0 test and once
\* more in the serial branch.
kits_used(single_exit) == IF single_exit THEN 1 ELSE 2

\* One patient through the waterfall: outcome, action, wait, beds and the
\* number of kits used.
waterfall(q, a, u_avail, u_rescue) ==
    IF a.use_single_sample /\ is_safe_single(q, a.limits)
    THEN [ Outcome |-> "Rule Out (Single Sample)",
           Action |-> RapidDischarge(a.discharge_dest),
           Wait |-> t0_wait(a.platform_type, u_avail),
           beds |-> wf_beds(RapidDischarge(a.discharge_dest), 0),
           kits |-> kits_used(TRUE) ]
    ELSE LET s == serial_outcome(q, a.limits, a.discharge_dest, u_rescue)
         IN  [ Outcome |-> s.Outcome, Action |-> s.Action,
               Wait |-> serial_wait(a.platform_type,
                                    t0_wait(a.platform_type, u_avail)),
               beds |-> wf_beds(s.Action, s.beds),
               kits |-> kits_used(FALSE) ]

\* p.update({"Outcome": outcome, "Action": action, "Wait": wait})
p_update(q, w) ==
    [ Patient_ID |-> q.Patient_ID, Condition |-> q.Condition,
      HEART_Score |-> q.HEART_Score, T0 |-> q.T0, T1 |-> q.T1,
      Outcome |-> w.Outcome, Action |-> w.Action, Wait |-> w.Wait ]

----------------------------------------------------------------------------
(* Values of the variables a specification does not use *)

None == "None"

NoArgs == [ none |-> TRUE ]

idleEval == p = None /\ draw = None /\ verdict = None

idleRun ==
    /\ results_log = << >>
    /\ beds_blocked_count = 0
    /\ total_wait_minutes = 0
    /\ total_kit_cost = 0
    /\ daily_cp_volume = 0
    /\ returned = None

idleUI ==
    /\ widgets = None
    /\ session_state = None
    /\ page = None
    /\ run_widgets = None
    /\ changes = 0

----------------------------------------------------------------------------
(* SpecEval: apply_esc_guidelines as a function of its arguments *)

EvalT0 == {0, 3, 4, 5, 11, 12, 19, 20, 21, 52, 53, 100}

EvalDelta == {0, 2, 3, 5, 6, 10}

EvalRuleOut == {0, 5, 12, 20, 60}

\* 5 is a rule_in below the fixed cut at 12.
EvalRuleIn == {5, 20, 52, 1000}

InitEval ==
    /\ pc = "eval"
    /\ p \in { with_T3(generate_patient_profile(1, 15,
                     [ rand |-> 99, heart_score |-> 2, base_trop |-> b,
                       delta |-> d ])) : b \in EvalT0, d \in EvalDelta }
    /\ args \in [ limits : [ rule_out : EvalRuleOut, rule_in : EvalRuleIn ],
                  platform : Platforms ]
    /\ draw \in [ result_ready : BOOLEAN ]
    /\ verdict = None
    /\ idleRun
    /\ idleUI

Evaluate ==
    /\ pc = "eval"
    /\ verdict' = apply_esc_guidelines(p, args.limits, draw.result_ready)
    /\ pc' = "evaluated"
    /\ UNCHANGED << args, p, draw, runVars, uiVars >>

NextEval == Evaluate

SpecEval == InitEval /\ [][NextEval]_vars

----------------------------------------------------------------------------------------------------------------------------------------
(* Spec: the two shift runners, run_shift of simulation.py (ESC) and        *)
(* run_shift of main.py (waterfall), each from its call to its return      *)

\* volume and chest_pain_pct of the calls: 0 .. MaxPatients patients.
ShiftSizes ==
    { << 10 * k, c >> : k \in 0..MaxPatients, c \in {0, 10} }

ShiftLimits == { [ rule_out |-> 5, rule_in |-> 52 ],
                 [ rule_out |-> 0, rule_in |-> 20 ],
                 [ rule_out |-> 20, rule_in |-> 1000 ] }

\* acs_prevalence of the calls (main.py passes 15).
ShiftAcs == {15}

\* discharge_dest of the calls.
ShiftDests == { "GP Surgery", "RACPC Clinic" }

\* State at the head of either loop.
InitRun ==
    /\ daily_cp_volume = cp_volume(args.volume, args.chest_pain_pct)
    /\ results_log = << >>
    /\ beds_blocked_count = 0
    /\ total_wait_minutes = 0
    /\ total_kit_cost = 0
    /\ returned = None
    /\ p = None
    /\ draw = << >>
    /\ verdict = None
    /\ idleUI

InitESC ==
    /\ pc = "esc_loop"
    /\ \E sz \in ShiftSizes :
         args \in [ volume : {sz[1]}, chest_pain_pct : {sz[2]},
                    acs_prevalence : ShiftAcs,
                    strategy_settings :
                        { strategy_settings(pl) : pl \in Platforms },
                    limits : ShiftLimits,
                    discharge_dest : ShiftDests ]
    /\ InitRun

InitWF ==
    /\ pc = "wf_loop"
    /\ \E sz \in ShiftSizes :
         args \in [ volume : {sz[1]}, chest_pain_pct : {sz[2]},
                    acs_prevalence : ShiftAcs,
                    platform_type : Platforms,
                    use_single_sample : BOOLEAN,
                    limits : ShiftLimits,
                    discharge_dest : ShiftDests ]
    /\ InitRun

Init == InitESC \/ InitWF

\* simulation.py: the loop body for i = len(results_log) + 1, with the
\* patient's draws d, the availability draw and the safety-net draw.
ESC_Step(d, u_ready, u_rescue) ==
    \E q \in { with_T3(generate_patient_profile(Len(results_log) + 1,
                                              args.acs_prevalence, d)) } :
    \E v \in { esc_safety_net(q,
                 apply_esc_guidelines(q, args.limits,
                     random_lt(u_ready, args.strategy_settings.availability)),
                 u_rescue, args.discharge_dest) } :
        /\ beds_blocked_count' = beds_blocked_count + esc_beds(v.Action)
        /\ total_wait_minutes' = total_wait_minutes + v.Wait
        /\ results_log' = Append(results_log, p_data(q, v))
        /\ draw' = Append(draw, d)
        /\ UNCHANGED << pc, args, p, verdict, total_kit_cost,
                        daily_cp_volume, returned, uiVars >>

\* simulation.py: one iteration of the loop.
ESC_Iterate ==
    /\ pc = "esc_loop"
    /\ Len(results_log) < daily_cp_volume
    /\ \E d \in patient_draws(args.acs_prevalence) :
         \E u_ready \in random_near(args.strategy_settings.availability),
            u_rescue \in rescue_draws(Condition(d.rand, args.acs_prevalence)) :
           ESC_Step(d, u_ready, u_rescue)

esc_financials ==
    [ waiting_minutes |-> total_wait_minutes,
      test_count |-> daily_cp_volume,
      test_unit_cost |-> args.strategy_settings.cost,
      beds_blocked |-> beds_blocked_count,
      total_cost |-> 0 ]

\* simulation.py: the loop is over; build the table and the financials.
ESC_Return ==
    /\ pc = "esc_loop"
    /\ Len(results_log) = daily_cp_volume
    /\ returned' = [ df |-> results_log, financials |-> esc_financials,
                     daily_cp_volume |-> daily_cp_volume ]
    /\ pc' = "esc_returned"
    /\ UNCHANGED << args, p, draw, verdict, results_log, beds_blocked_count,
                    total_wait_minutes, total_kit_cost, daily_cp_volume,
                    uiVars >>

\* Variant: the kit cost is assigned, not accumulated.
wf_loop_body_Assign(acc, a, d, u_avail, u_rescue) ==
    LET q == generate_patient_profile(Len(acc.results_log) + 1,
                                      a.acs_prevalence, d)
        w == waterfall(q, a, u_avail, u_rescue)
    IN  [ total_kit_cost |-> w.kits * COST_PER_TEST(a.platform_type),
          beds_blocked_count |-> acc.beds_blocked_count + w.beds,
          total_wait_minutes |-> acc.total_wait_minutes + w.Wait,
          results_log |-> Append(acc.results_log, p_update(q, w)) ]

\* main.py: the loop body for i = len(acc.results_log) + 1 on the running
\* totals acc, with the patient's draws d, the availability draw and the
\* safety-net draw.
wf_loop_body(acc, a, d, u_avail, u_rescue) ==
    LET q == generate_patient_profile(Len(acc.results_log) + 1,
                                      a.acs_prevalence, d)
        w == waterfall(q, a, u_avail, u_rescue)
    IN  [ total_kit_cost |->
              acc.total_kit_cost + w.kits * COST_PER_TEST(a.platform_type),
          beds_blocked_count |-> acc.beds_blocked_count + w.beds,
          total_wait_minutes |-> acc.total_wait_minutes + w.Wait,
          results_log |-> Append(acc.results_log, p_update(q, w)) ]

Waterfall_Step(d, u_avail, u_rescue) ==
    \E acc \in { wf_loop_body(
                   [ total_kit_cost |-> total_kit_cost,
                     beds_blocked_count |-> beds_blocked_count,
                     total_wait_minutes |-> total_wait_minutes,
                     results_log |-> results_log ],
                   args, d, u_avail, u_rescue) } :
        /\ total_kit_cost' = acc.total_kit_cost
        /\ beds_blocked_count' = acc.beds_blocked_count
        /\ total_wait_minutes' = acc.total_wait_minutes
        /\ results_log' = acc.results_log
        /\ draw' = Append(draw, d)
        /\ UNCHANGED << pc, args, p, verdict, daily_cp_volume, returned,
                        uiVars >>

\* main.py: one iteration of the loop.
Waterfall_Iterate ==
    /\ pc = "wf_loop"
    /\ Len(results_log) < daily_cp_volume
    /\ \E d \in patient_draws(args.acs_prevalence) :
         \E u_avail \in random_near(AVAILABILITY(args.platform_type)),
            u_rescue \in rescue_draws(Condition(d.rand, args.acs_prevalence)) :
           Waterfall_Step(d, u_avail, u_rescue)

wf_financials ==
    [ waiting_minutes |-> total_wait_minutes,
      test_count |-> daily_cp_volume,
      test_kit_cost |-> total_kit_cost,
      beds_blocked |-> beds_blocked_count,
      total_cost |-> 0 ]

\* main.py: the loop is over; build the table and the financials.
Waterfall_Return ==
    /\ pc = "wf_loop"
    /\ Len(results_log) = daily_cp_volume
    /\ returned' = [ df |-> results_log, financials |-> wf_financials,
                     daily_cp_volume |-> daily_cp_volume ]
    /\ pc' = "wf_returned"
    /\ UNCHANGED << args, p, draw, verdict, results_log, beds_blocked_count,
                    total_wait_minutes, total_kit_cost, daily_cp_volume,
                    uiVars >>

Next == ESC_Iterate \/ ESC_Return \/ Waterfall_Iterate \/ Waterfall_Return

Spec == Init /\ [][Next]_vars

----------------------------------------------------------------------------
(* SpecShift: the two shift runners over shifts of several patients, with  *)
(* the default thresholds                                                  *)

\* daily_cp_volume of these shifts.
ShiftPatients == 0..MaxShiftPatients

\* The waterfall calls: the page's defaults (Central Lab, single-sample
\* exit enabled) and the call with both changed.
ShiftWaterfalls ==
    { [ platform_type |-> "Central Lab", use_single_sample |-> TRUE ],
      [ platform_type |-> "Point of Care (POC)",
        use_single_sample |-> FALSE ] }

InitShiftESC ==
    /\ pc = "esc_loop"
    /\ \E k \in ShiftPatients :
         args = [ volume |-> 10 * k, chest_pain_pct |-> 10,
                  acs_prevalence |-> 15,
                  strategy_settings |->
                      strategy_settings("Point of Care (POC)"),
                  limits |-> [ rule_out |-> 5, rule_in |-> 52 ],
                  discharge_dest |-> "GP Surgery" ]
    /\ InitRun

InitShiftWF ==
    /\ pc = "wf_loop"
    /\ \E k \in ShiftPatients, c \in ShiftWaterfalls :
         args = [ volume |-> 10 * k, chest_pain_pct |-> 10,
                  acs_prevalence |-> 15,
                  platform_type |-> c.platform_type,
                  use_single_sample |-> c.use_single_sample,
                  limits |-> [ rule_out |-> 5, rule_in |-> 52 ],
                  discharge_dest |-> "GP Surgery" ]
    /\ InitRun

InitShift == InitShiftESC \/ InitShiftWF

SpecShift == InitShift /\ [][Next]_vars

----------------------------------------------------------------------------
(* SpecPatient: one iteration of either loop, for every patient the        *)
(* generator can produce                                                   *)

\* acs_prevalence, limits and platform of the calls.  With acs_prevalence
\* 0 the generator has no NSTEMI band: those calls take every Rule-Out
\* Limit of the slider, with the ends and the default of the Rule-In
\* slider, on both platforms.  With main.py's acs_prevalence the calls take
\* the two pairs of opposite ends of the sliders.
PatientCalls ==
    { << 0, l, pl >> : l \in [ rule_out : 0..20, rule_in : {20, 52, 1000} ],
                       pl \in Platforms }
        \cup { << a, l, "Point of Care (POC)" >> :
                 a \in ShiftAcs,
                 l \in { [ rule_out |-> 20, rule_in |-> 1000 ],
                         [ rule_out |-> 0, rule_in |-> 20 ] } }

InitPatientESC ==
    /\ pc = "esc_loop"
    /\ \E c \in PatientCalls :
         args = [ volume |-> 10, chest_pain_pct |-> 10,
                  acs_prevalence |-> c[1],
                  strategy_settings |-> strategy_settings(c[3]),
                  limits |-> c[2],
                  discharge_dest |-> "GP Surgery" ]
    /\ InitRun

InitPatientWF ==
    /\ pc = "wf_loop"
    /\ \E c \in PatientCalls, single \in BOOLEAN :
         args = [ volume |-> 10, chest_pain_pct |-> 10,
                  acs_prevalence |-> c[1],
                  platform_type |-> c[3],
                  use_single_sample |-> single,
                  limits |-> c[2],
                  discharge_dest |-> "GP Surgery" ]
    /\ InitRun

InitPatient == InitPatientESC \/ InitPatientWF

\* simulation.py: one iteration of the loop, the patient's draws taken from
\* every combination generate_patient_profile can make.
ESC_Patient ==
    /\ pc = "esc_loop"
    /\ Len(results_log) < daily_cp_volume
    /\ \E d \in profile_draws(args.acs_prevalence,
                               band_draws(args.acs_prevalence)) :
         \E u_ready \in random_near(args.strategy_settings.availability),
            u_rescue \in rescue_draws(Condition(d.rand, args.acs_prevalence)) :
           ESC_Step(d, u_ready, u_rescue)

\* main.py: one iteration of the loop, likewise.
Waterfall_Patient ==
    /\ pc = "wf_loop"
    /\ Len(results_log) < daily_cp_volume
    /\ \E d \in profile_draws(args.acs_prevalence,
                               band_draws(args.acs_prevalence)) :
         \E u_avail \in random_near(AVAILABILITY(args.platform_type)),
            u_rescue \in rescue_draws(Condition(d.rand, args.acs_prevalence)) :
           Waterfall_Step(d, u_avail, u_rescue)

NextPatient == ESC_Patient \/ Waterfall_Patient

SpecPatient == InitPatient /\ [][NextPatient]_vars


----------------------------------------------------------------------------
(* SpecApp: the Streamlit page of main.py, once the splash screen has been  *)
(* accepted.  Streamlit reruns the whole script on every interaction: an   *)
(* action is one interaction followed by the script run it triggers.       *)

\* The values each sidebar widget is moved between; the first is the
\* widget's default, which the page starts with.  Daily Census has
\* min_value 250.  At 1 percent a run simulates 2 patients, at 0 none.
AppWidgetValues ==
    [ platform_type |-> << "Central Lab", "Point of Care (POC)" >>,
      use_single_sample |-> << TRUE, FALSE >>,
      rule_out |-> << 5, 20 >>,
      rule_in |-> << 52, 20 >>,
      discharge_dest |-> << "GP Surgery", "Virtual Ward", "RACPC Clinic" >>,
      daily_census |-> << 250, 260 >>,
      chest_pain_pct |-> << 10, 1, 0 >>,
      consultant_cost |-> << 135, 100 >>,
      nurse_cost |-> << 30, 20 >> ]

Range(f) == { f[x] : x \in DOMAIN f }

\* The draws of one patient of a page run, numbered: the number counts
\* through the four bands, then through the four pairs of outcomes of the
\* doctor-availability comparison and of the safety-net comparison, then
\* through the combinations of stored draws of the band.
page_draw(i) ==
    LET r == band_rand(15, i % 4)
        k == (i \div 4) % 4
        c == combo(Condition(r, 15), i \div 16)
    IN  [ d |-> [ rand |-> r, heart_score |-> c.heart_score,
                  base_trop |-> c.base_trop, delta |-> c.delta ],
          u_avail |-> IF k \in {0, 2} THEN random_min ELSE random_max,
          u_rescue |-> IF k \in {0, 3} THEN random_max ELSE random_min ]

\* The draws of one patient of a page run: the first MaxPageDraws.
AppDraws == { page_draw(i) : i \in 0..(MaxPageDraws - 1) }

\* current_sig = f"{platform_type}-{use_single_sample}-{rule_out}-{daily_census}"
\* The text determines the four values (no platform name holds a hyphen and
\* rule_out is not negative), so the signature is kept as the tuple.
current_sig(w) ==
    << w.platform_type, w.use_single_sample, w.rule_out, w.daily_census >>

\* The arguments of the run_shift call of the RUN SIMULATION handler.
app_run_args(w) ==
    [ volume |-> w.daily_census, chest_pain_pct |-> w.chest_pain_pct,
      acs_prevalence |-> 15, platform_type |-> w.platform_type,
      use_single_sample |-> w.use_single_sample,
      limits |-> [ rule_out |-> w.rule_out, rule_in |-> w.rule_in ],
      discharge_dest |-> w.discharge_dest ]

\* run_shift of main.py from call to return, ds[i] being the draws of
\* patient i: the totals after k iterations.
RECURSIVE wf_loop(_, _, _)
wf_loop(a, ds, k) ==
    IF k = 0
    THEN [ total_kit_cost |-> 0, beds_blocked_count |-> 0,
           total_wait_minutes |-> 0, results_log |-> << >> ]
    ELSE wf_loop_body(wf_loop(a, ds, k - 1), a, ds[k].d, ds[k].u_avail,
                      ds[k].u_rescue)

run_shift(a, ds) ==
    LET vol == cp_volume(a.volume, a.chest_pain_pct)
        acc == wf_loop(a, ds, vol)
    IN  [ df |-> acc.results_log,
          financials |-> [ waiting_minutes |-> acc.total_wait_minutes,
                           test_count |-> vol,
                           test_kit_cost |-> acc.total_kit_cost,
                           beds_blocked |-> acc.beds_blocked_count,
                           total_cost |-> 0 ],
          daily_cp_volume |-> vol ]

\* Variants of the cost finalisation, used to show what the cost
\* properties detect.
final_costs_StandingCharge(fins, w) ==
    LET staff_cost_per_min == double_div60(w.consultant_cost + w.nurse_cost)
        waiting_cost == double_times(fins.waiting_minutes, staff_cost_per_min)
    IN  [ waiting_minutes |-> fins.waiting_minutes,
          test_count |-> fins.test_count,
          test_kit_cost |-> fins.test_kit_cost,
          beds_blocked |-> fins.beds_blocked,
          waiting_cost |-> waiting_cost,
          total_cost |->
              double_plus(waiting_cost, fins.test_kit_cost + w.nurse_cost) ]

final_costs_ConsultantOnly(fins, w) ==
    LET staff_cost_per_min == double_div60(w.consultant_cost)
        waiting_cost == double_times(fins.waiting_minutes, staff_cost_per_min)
    IN  [ waiting_minutes |-> fins.waiting_minutes,
          test_count |-> fins.test_count,
          test_kit_cost |-> fins.test_kit_cost,
          beds_blocked |-> fins.beds_blocked,
          waiting_cost |-> waiting_cost,
          total_cost |-> double_plus(waiting_cost, fins.test_kit_cost) ]

\* "Final Costs" of the handler:
\*   staff_cost_per_min = (consultant_cost + nurse_cost) / 60
\*   fins['waiting_cost'] = fins['waiting_minutes'] * staff_cost_per_min
\*   fins['total_cost'] = fins['waiting_cost'] + fins['test_kit_cost']
\* each a double operation; test_kit_cost is a whole number of pounds.
final_costs(fins, w) ==
    LET staff_cost_per_min == double_div60(w.consultant_cost + w.nurse_cost)
        waiting_cost == double_times(fins.waiting_minutes, staff_cost_per_min)
    IN  [ waiting_minutes |-> fins.waiting_minutes,
          test_count |-> fins.test_count,
          test_kit_cost |-> fins.test_kit_cost,
          beds_blocked |-> fins.beds_blocked,
          waiting_cost |-> waiting_cost,
          total_cost |-> double_plus(waiting_cost, fins.test_kit_cost) ]

\* What the handler stores in st.session_state.
app_store(w, ds) ==
    LET r == run_shift(app_run_args(w), ds)
    IN  [ simulation_results |-> r.df,
          financials |-> final_costs(r.financials, w),
          last_run_settings |-> current_sig(w) ]

\* tab1 below the button.  A DataFrame built from an empty list has no
\* columns, so df['Outcome'] raises KeyError and the script run ends there.
\* pct_early is in tenths of a percent.
app_tab1(ss) ==
    IF ss.simulation_results = None
    THEN [ shows |-> "nothing", pct_early |-> None ]
    ELSE IF ss.simulation_results = << >>
    THEN [ shows |-> "KeyError", pct_early |-> None ]
    ELSE LET df == ss.simulation_results
             early_dc == Cardinality({ k \in 1..Len(df) :
                             df[k].Outcome = "Rule Out (Single Sample)" })
             total_pts == Len(df)
         IN  [ shows |-> "dashboard",
               pct_early |-> IF total_pts > 0
                             THEN (early_dc * 1000) \div total_pts
                             ELSE 0 ]

\* A variant of generate_pdf that ignores the missing library.
generate_pdf_Always(has_reportlab, fin) == "pdf_bytes"

\* generate_pdf / create_letter_pdf: None without reportlab.
generate_pdf(has_reportlab, fin) ==
    IF ~has_reportlab THEN None ELSE "pdf_bytes"

\* tab2: the letter preview is always shown; the download button of the
\* letter only with reportlab.
app_tab2(has_reportlab) ==
    IF has_reportlab THEN "Download Discharge Letter (PDF)"
    ELSE "letter preview"

\* tab3
app_tab3(w, ss, has_reportlab) ==
    IF ss.simulation_results = None THEN "Run sim first."
    ELSE IF ss.last_run_settings # current_sig(w) THEN "Settings changed."
    ELSE IF generate_pdf(has_reportlab, ss.financials) # None
    THEN "Download PDF"
    ELSE "PDF Library Missing (reportlab)."

\* One run of the script below the RUN SIMULATION handler.
app_script(w, ss, has_reportlab) ==
    LET t1 == app_tab1(ss)
    IN  [ tab1 |-> t1.shows, pct_early |-> t1.pct_early,
          tab2 |-> IF t1.shows = "KeyError" THEN "not rendered"
                   ELSE app_tab2(has_reportlab),
          tab3 |-> IF t1.shows = "KeyError" THEN "not rendered"
                   ELSE app_tab3(w, ss, has_reportlab) ]

\* The session state of a new session.  last_run_settings starts as "",
\* which no signature equals; the empty tuple stands for it.
app_session0 ==
    [ simulation_results |-> None, financials |-> << >>,
      last_run_settings |-> << >> ]

InitApp ==
    /\ pc = "main.py"
    /\ args \in [ HAS_REPORTLAB : BOOLEAN ]
    /\ widgets = [ n \in DOMAIN AppWidgetValues |-> AppWidgetValues[n][1] ]
    /\ session_state = app_session0
    /\ page = app_script(widgets, session_state, args.HAS_REPORTLAB)
    /\ run_widgets = NoArgs
    /\ changes = 0
    /\ idleEval
    /\ idleRun

\* The user moves one sidebar widget; the script reruns.
App_ChangeWidget ==
    /\ pc = "main.py"
    /\ changes < MaxChanges
    /\ \E n \in DOMAIN AppWidgetValues :
         \E x \in Range(AppWidgetValues[n]) \ {widgets[n]} :
            /\ widgets' = [ widgets EXCEPT ![n] = x ]
            /\ page' = app_script(widgets', session_state, args.HAS_REPORTLAB)
    /\ changes' = changes + 1
    /\ UNCHANGED << pc, args, p, draw, verdict, runVars, session_state,
                    run_widgets >>

\* The user clicks RUN SIMULATION; the script reruns with the button set.
\* Runs of more than MaxPagePatients patients are left out.
App_RunSimulation ==
    /\ pc = "main.py"
    /\ cp_volume(widgets.daily_census, widgets.chest_pain_pct)
           <= MaxPagePatients
    /\ \E ds \in [ 1..cp_volume(widgets.daily_census, widgets.chest_pain_pct)
                     -> AppDraws ] :
         /\ session_state' = app_store(widgets, ds)
         /\ page' = app_script(widgets, session_state', args.HAS_REPORTLAB)
    /\ run_widgets' = widgets
    /\ UNCHANGED << pc, args, p, draw, verdict, runVars, widgets, changes >>

NextApp == App_ChangeWidget \/ App_RunSimulation

SpecApp == InitApp /\ [][NextApp]_vars

----------------------------------------------------------------------------
(* SpecSim: the Streamlit page of chest_pain_sim.py.  Its RUN SIMULATION    *)
(* handler calls st.progress and time.sleep in its loop, where Streamlit   *)
(* serves a pending rerun: the handler is followed iteration by iteration  *)
(* and an interaction during the loop abandons the run before SAVE STATE.  *)

\* The values each sidebar widget is moved between; the first is the
\* widget's default.  Daily ED Census has no minimum: at census 10 and
\* 10 percent a run simulates 1 patient.
SimWidgetValues ==
    [ daily_census |-> << 250, 10, 0 >>,
      chest_pain_pct |-> << 10, 0 >>,
      test_modality |-> << "Central Lab", "Point of Care (POC)" >>,
      rule_out_limit |-> << 5, 20 >>,
      rule_in_limit |-> << 52, 20 >>,
      discharge_dest |-> << "GP Surgery", "Virtual Ward", "RACPC Clinic" >>,
      consultant_cost |-> << 135, 100 >>,
      nurse_cost |-> << 30, 20 >> ]

\* current_settings_sig =
\*   f"{daily_census}-{test_modality}-{rule_out_limit}-{discharge_dest}"
\* kept as the tuple of the four values, which the text determines over
\* the values above.
current_settings_sig(w) ==
    << w.daily_census, w.test_modality, w.rule_out_limit, w.discharge_dest >>

\* The arguments of the randint call that draws trop.
sim_trop_args(is_mi) == IF is_mi THEN << 50, 5000 >> ELSE << 0, 15 >>

sim_trops(is_mi) == randint(sim_trop_args(is_mi)[1], sim_trop_args(is_mi)[2])

\* The draws of one patient of a page run, numbered: the number counts
\* through the two outcomes of the is_mi comparison, the two outcomes of
\* the result_ready comparison (each by the draw next to the probability),
\* then the values of the troponin range of the condition drawn.
sim_draw(w, i) ==
    LET u_mi == IF i % 2 = 0 THEN draw_above(prob_double(15))
                ELSE draw_below(prob_double(15))
        a == sim_trop_args(random_lt(u_mi, 15))
        avail == prob_double(availability_chance(w.test_modality))
    IN  [ u_mi |-> u_mi,
          trop |-> nth_value(a[1], a[2], i \div 4),
          u_ready |-> IF (i \div 2) % 2 = 0 THEN draw_below(avail)
                      ELSE draw_above(avail) ]

\* The draws of one patient of a page run: the first MaxSimDraws.
sim_patient_draws(w) == { sim_draw(w, i) : i \in 0..(MaxSimDraws - 1) }

\* The body of the simulation loop for patient i.
sim_loop_body(acc, i, w, d) ==
    LET is_mi == random_lt(d.u_mi, 15)
        condition == IF is_mi THEN "ACS (True)" ELSE "Non-Cardiac"
        result_ready ==
            random_lt(d.u_ready, availability_chance(w.test_modality))
        outcome == IF ~result_ready THEN "Pending"
                   ELSE IF d.trop < w.rule_out_limit THEN "Rule Out"
                   ELSE IF d.trop > w.rule_in_limit THEN "Rule In"
                   ELSE "Grey Zone"
        action == IF ~result_ready THEN "Bed Blocked (Wait)"
                  ELSE IF d.trop < w.rule_out_limit
                  THEN Discharge(w.discharge_dest)
                  ELSE IF d.trop > w.rule_in_limit THEN "Cath Lab"
                  ELSE "Admit AMU"
        beds == IF outcome \in {"Pending", "Grey Zone"} THEN 1 ELSE 0
        wait_time == IF result_ready THEN 20
                     ELSE turnaround_time(w.test_modality) + 60
    IN  [ beds_blocked_count |-> acc.beds_blocked_count + beds,
          total_wait_minutes |-> acc.total_wait_minutes + wait_time,
          results_log |-> Append(acc.results_log,
              [ PatientID |-> i, Condition |-> condition, Trop |-> d.trop,
                Outcome |-> outcome, Action |-> action,
                Wait |-> wait_time ]) ]

\* What the handler stores in st.session_state ("SAVE STATE") when the
\* loop has left the totals acc:
\*   "waiting_cost": total_wait_minutes * ((consultant_cost + nurse_cost) / 60)
\*   "test_cost": daily_cp_volume * test_cost
\*   "total": the sum of the two expressions
\* each a double operation; test_cost is a whole number of pounds.
sim_store(w, acc) ==
    LET vol == cp_volume(w.daily_census, w.chest_pain_pct)
        waiting_cost ==
            double_times(acc.total_wait_minutes,
                         double_div60(w.consultant_cost + w.nurse_cost))
    IN  [ simulation_results |-> acc.results_log,
          financials |-> [ waiting_cost |-> waiting_cost,
                           test_cost |-> vol * test_cost(w.test_modality),
                           total |-> double_plus(waiting_cost,
                                         vol * test_cost(w.test_modality)),
                           beds_blocked |-> acc.beds_blocked_count ],
          last_run_settings |-> current_settings_sig(w) ]

\* "SHOW DASHBOARD (If data exists)".  A DataFrame built from an empty
\* list has no columns, so df['Condition'] raises KeyError and the script
\* run ends there.
sim_tab1(ss) ==
    IF ss.simulation_results = None THEN "nothing"
    ELSE IF ss.simulation_results = << >> THEN "KeyError"
    ELSE "dashboard"

\* fin['beds_blocked'] / daily_cp_volume > 0.2, daily_cp_volume being the
\* value the current script run computed from the sidebar.
sim_block_rate(fin, vol) ==
    IF vol = 0 THEN "ZeroDivisionError"
    ELSE IF vol > 0 /\ 5 * fin.beds_blocked > vol
    THEN "CRITICAL: High Bed Blocking detected."
    ELSE "Flow is efficient."

\* tab3
sim_tab3(w, ss, has_reportlab) ==
    IF ss.simulation_results = None
    THEN [ shows |-> "Run simulation first.", flow |-> None ]
    ELSE IF ss.last_run_settings # current_settings_sig(w)
    THEN [ shows |-> "Settings changed.", flow |-> None ]
    ELSE LET flow == sim_block_rate(ss.financials,
                         cp_volume(w.daily_census, w.chest_pain_pct))
         IN  [ shows |-> IF flow = "ZeroDivisionError" THEN flow
                         ELSE IF has_reportlab THEN "Download PDF"
                         ELSE "PDF Library missing (reportlab).",
               flow |-> flow ]

\* One run of the script below the RUN SIMULATION handler.
sim_script(w, ss, has_reportlab) ==
    LET t1 == sim_tab1(ss)
        t3 == sim_tab3(w, ss, has_reportlab)
    IN  [ tab1 |-> t1,
          tab3 |-> IF t1 = "KeyError" THEN "not rendered" ELSE t3.shows,
          flow |-> IF t1 = "KeyError" THEN None ELSE t3.flow ]

\* The session state of a new session.  last_run_settings starts as {},
\* which no signature equals; the empty tuple stands for it.
sim_session0 ==
    [ simulation_results |-> None, financials |-> << >>,
      last_run_settings |-> << >> ]

InitSim ==
    /\ pc = "chest_pain_sim.py"
    /\ args \in [ HAS_REPORTLAB : BOOLEAN ]
    /\ widgets = [ n \in DOMAIN SimWidgetValues |-> SimWidgetValues[n][1] ]
    /\ session_state = sim_session0
    /\ page = sim_script(widgets, session_state, args.HAS_REPORTLAB)
    /\ run_widgets = NoArgs
    /\ changes = 0
    /\ idleEval
    /\ idleRun

\* The user moves one sidebar widget; the script reruns.
Sim_ChangeWidget ==
    /\ pc = "chest_pain_sim.py"
    /\ changes < MaxChanges
    /\ \E n \in DOMAIN SimWidgetValues :
         \E x \in Range(SimWidgetValues[n]) \ {widgets[n]} :
            /\ widgets' = [ widgets EXCEPT ![n] = x ]
            /\ page' = sim_script(widgets', session_state, args.HAS_REPORTLAB)
    /\ changes' = changes + 1
    /\ UNCHANGED << pc, args, p, draw, verdict, runVars, session_state,
                    run_widgets >>

\* What the script run of a click has rendered while the handler is in its
\* loop: the spinner and the progress bar; tab3 comes after the handler.
sim_running ==
    [ tab1 |-> "spinner", tab3 |-> "not rendered", flow |-> None ]

\* The locals of the handler.
sim_locals ==
    [ beds_blocked_count |-> beds_blocked_count,
      total_wait_minutes |-> total_wait_minutes,
      results_log |-> results_log ]

\* The script run is over: its locals are gone.
sim_script_ends ==
    /\ pc' = "chest_pain_sim.py"
    /\ results_log' = << >>
    /\ beds_blocked_count' = 0
    /\ total_wait_minutes' = 0
    /\ daily_cp_volume' = 0

\* The user clicks RUN SIMULATION; the script reruns with the button set
\* and reaches st.progress(0) at the head of the loop.  A click while the
\* handler is in its loop abandons that run in the same way.
Sim_RunSimulation ==
    /\ pc \in { "chest_pain_sim.py", "chest_pain_sim.py:loop" }
    /\ pc' = "chest_pain_sim.py:loop"
    /\ daily_cp_volume' = cp_volume(widgets.daily_census,
                                    widgets.chest_pain_pct)
    /\ results_log' = << >>
    /\ beds_blocked_count' = 0
    /\ total_wait_minutes' = 0
    /\ page' = sim_running
    /\ UNCHANGED << args, p, draw, verdict, total_kit_cost, returned, widgets,
                    session_state, run_widgets, changes >>

\* One iteration of the loop, up to its progress_bar.progress call and
\* time.sleep.  A run is followed for MaxPagePatients patients.
Sim_Iterate ==
    /\ pc = "chest_pain_sim.py:loop"
    /\ Len(results_log) < daily_cp_volume
    /\ Len(results_log) < MaxPagePatients
    /\ \E d \in sim_patient_draws(widgets) :
         LET acc == sim_loop_body(sim_locals, Len(results_log) + 1,
                                  widgets, d)
         IN  /\ results_log' = acc.results_log
             /\ beds_blocked_count' = acc.beds_blocked_count
             /\ total_wait_minutes' = acc.total_wait_minutes
    /\ UNCHANGED << pc, args, p, draw, verdict, total_kit_cost,
                    daily_cp_volume, returned, uiVars >>

\* The loop is over: SAVE STATE, then the rest of the script.
Sim_SaveState ==
    /\ pc = "chest_pain_sim.py:loop"
    /\ Len(results_log) = daily_cp_volume
    /\ session_state' = sim_store(widgets, sim_locals)
    /\ page' = sim_script(widgets, session_state', args.HAS_REPORTLAB)
    /\ run_widgets' = widgets
    /\ sim_script_ends
    /\ UNCHANGED << args, p, draw, verdict, total_kit_cost, returned, widgets,
                    changes >>

\* The page reruns while the handler is in its loop, because the user moves
\* a sidebar widget or because of an interaction that moves none (the
\* report filename, a download button, Rerun): Streamlit stops the script
\* run at the progress call it is in (st.progress before the loop,
\* progress_bar.progress in it) and reruns the script with the button
\* unset.  Nothing the abandoned run computed is stored.
Sim_Interrupt ==
    /\ pc = "chest_pain_sim.py:loop"
    /\ \/ /\ changes < MaxChanges
          /\ \E n \in DOMAIN SimWidgetValues :
               \E x \in Range(SimWidgetValues[n]) \ {widgets[n]} :
                  widgets' = [ widgets EXCEPT ![n] = x ]
          /\ changes' = changes + 1
       \/ UNCHANGED << widgets, changes >>
    /\ page' = sim_script(widgets', session_state, args.HAS_REPORTLAB)
    /\ sim_script_ends
    /\ UNCHANGED << args, p, draw, verdict, total_kit_cost, returned,
                    session_state, run_widgets >>

NextSim ==
    \/ Sim_ChangeWidget
    \/ Sim_RunSimulation
    \/ Sim_Iterate
    \/ Sim_SaveState
    \/ Sim_Interrupt

SpecSim == InitSim /\ [][NextSim]_vars

----------------------------------------------------------------------------
(* SpecPages: either page.                                                  *)

InitPages == InitApp \/ InitSim

NextPages ==
    \/ App_ChangeWidget
    \/ App_RunSimulation
    \/ Sim_ChangeWidget
    \/ Sim_RunSimulation
    \/ Sim_Iterate
    \/ Sim_SaveState
    \/ Sim_Interrupt

SpecPages == InitPages /\ [][NextPages]_vars

----------------------------------------------------------------------------
(* SpecGen: one call of generate_patient_profile (simulation.py), for every *)
(* acs_prevalence in 0..100 and every value of rand.                       *)

GenAcs == 0..100

GenRand == random100

gen_draws(acs_prevalence) == sampled_draws(acs_prevalence, GenRand)

InitGen ==
    /\ pc = "gen"
    /\ args \in [ acs_prevalence : GenAcs ]
    /\ draw \in gen_draws(args.acs_prevalence)
    /\ p = None
    /\ verdict = None
    /\ idleRun
    /\ idleUI

Generate ==
    /\ pc = "gen"
    /\ p' = with_T3(generate_patient_profile(1, args.acs_prevalence, draw))
    /\ pc' = "generated"
    /\ UNCHANGED << args, draw, verdict, runVars, uiVars >>

NextGen == Generate

SpecGen == InitGen /\ [][NextGen]_vars

----------------------------------------------------------------------------
(* SpecTrop: one call of generate_patient_profile (simulation.py) at       *)
(* acs_prevalence 15, for one rand in each band and every HEART score,     *)
(* base_trop and delta the branch can draw.                                *)

InitTrop ==
    /\ pc = "gen"
    /\ args \in [ acs_prevalence : ShiftAcs ]
    /\ draw \in UNION { profile_draws(a, band_draws(a)) : a \in ShiftAcs }
    /\ p = None
    /\ verdict = None
    /\ idleRun
    /\ idleUI

SpecTrop == InitTrop /\ [][NextGen]_vars

----------------------------------------------------------------------------
(* SpecCount: whole shifts of both runners, from the call to the return,    *)
(* for a range of census and percentage values.  The first MaxCountFree    *)
(* patients of a shift draw as the patients of a page run do; the number   *)
(* of loop iterations does not depend on the draws, and the patients after *)
(* them are followed for the draws count_draw(i) only.                     *)

CountVolumes == {0, 1, 10, 50, 100, 250, 300}

CountPcts == {0, 1, 10, 25, 29, 50, 57, 58, 99, 100}

\* The draws patient i is followed for once the first MaxCountFree patients
\* have been drawn: a Non-Cardiac patient, an Unstable Angina patient the
\* doctor rescues and a Chronic Injury patient whose result is late, in
\* turn.
count_draw(i) ==
    CASE i % 3 = 1 ->
           [ d |-> [ rand |-> 99, heart_score |-> 0, base_trop |-> 0,
                     delta |-> 0 ],
             u_avail |-> random_min, u_rescue |-> random_max ]
      [] i % 3 = 2 ->
           [ d |-> [ rand |-> 17, heart_score |-> 4, base_trop |-> 0,
                     delta |-> 0 ],
             u_avail |-> random_min, u_rescue |-> random_min ]
      [] OTHER ->
           [ d |-> [ rand |-> 25, heart_score |-> 8, base_trop |-> 60,
                     delta |-> 3 ],
             u_avail |-> random_max, u_rescue |-> random_max ]

\* The draws followed for patient i of a shift: rand, the three draws of
\* its branch and the two random.random() of the iteration.
count_draws(i) ==
    IF i <= MaxCountFree THEN AppDraws ELSE { count_draw(i) }

InitCountESC ==
    /\ pc = "esc_loop"
    /\ args \in [ volume : CountVolumes, chest_pain_pct : CountPcts,
                  acs_prevalence : ShiftAcs,
                  strategy_settings : { strategy_settings("Central Lab") },
                  limits : { [ rule_out |-> 5, rule_in |-> 52 ] },
                  discharge_dest : { "GP Surgery" } ]
    /\ InitRun

InitCountWF ==
    /\ pc = "wf_loop"
    /\ args \in [ volume : CountVolumes, chest_pain_pct : CountPcts,
                  acs_prevalence : ShiftAcs,
                  platform_type : { "Central Lab" },
                  use_single_sample : { TRUE },
                  limits : { [ rule_out |-> 5, rule_in |-> 52 ] },
                  discharge_dest : { "GP Surgery" } ]
    /\ InitRun

InitCount == InitCountESC \/ InitCountWF

\* for i in range(1, daily_cp_volume + 1), simulation.py
Count_ESC_Iterate ==
    /\ pc = "esc_loop"
    /\ Len(results_log) < daily_cp_volume
    /\ \E c \in count_draws(Len(results_log) + 1) :
         ESC_Step(c.d, c.u_avail, c.u_rescue)

\* for i in range(1, daily_cp_volume + 1), main.py
Count_Waterfall_Iterate ==
    /\ pc = "wf_loop"
    /\ Len(results_log) < daily_cp_volume
    /\ \E c \in count_draws(Len(results_log) + 1) :
         Waterfall_Step(c.d, c.u_avail, c.u_rescue)

NextCount ==
    \/ Count_ESC_Iterate
    \/ ESC_Return
    \/ Count_Waterfall_Iterate
    \/ Waterfall_Return

SpecCount == InitCount /\ [][NextCount]_vars

----------------------------------------------------------------------------
(* Properties *)

\* Positions of the two runners.
InESC == pc \in {"esc_loop", "esc_returned"}

InWF == pc \in {"wf_loop", "wf_returned"}

Rows == 1..Len(results_log)

RowsWith(outcomes) == { k \in Rows : results_log[k].Outcome \in outcomes }

\* C1: under the ESC protocol, when result_ready is false the evaluation
\* yields Pending, "Bed Blocked (Wait)", one blocked bed and a wait of the
\* platform's turnaround time + 60 (80 for Point of Care, 150 for Central
\* Lab), whatever t0 and t1.
C1_PendingWaitIsTurnaroundPlus60 ==
    (pc = "evaluated" /\ ~draw.result_ready) =>
        /\ verdict.Outcome = "Pending"
        /\ verdict.Action = "Bed Blocked (Wait)"
        /\ esc_beds(verdict.Action) = 1
        /\ verdict.Wait =
               (IF args.platform = "Point of Care (POC)" THEN 20 ELSE 90) + 60

\* C2: under the ESC protocol with the result ready, Rule Out (wait 20, no
\* bed) if t0 < rule_out or (t0 < 12 and t1 - t0 < 3); otherwise Rule In
\* (wait 60, no bed) if t0 > rule_in or t1 - t0 > 5; otherwise Observe (wait
\* 180, one bed).  Rule Out is tested first; t0 = 100 with rule_in = 52 and
\* rule_out <= 100 gives Rule In, wait 60, no bed.
C2_EscThresholdRule ==
    (pc = "evaluated" /\ draw.result_ready) =>
        LET t0 == p.T0
            t1 == p.T1
            out == t0 < args.limits.rule_out \/ (t0 < 12 /\ t1 - t0 < 3)
            in == t0 > args.limits.rule_in \/ t1 - t0 > 5
        IN  /\ t0 >= 0 /\ t1 >= t0
            /\ out => /\ verdict.Outcome = "Rule Out"
                      /\ verdict.Wait = 20
                      /\ esc_beds(verdict.Action) = 0
            /\ (~out /\ in) => /\ verdict.Outcome = "Rule In"
                               /\ verdict.Wait = 60
                               /\ esc_beds(verdict.Action) = 0
            /\ (~out /\ ~in) => /\ verdict.Outcome = "Observe"
                                /\ verdict.Wait = 180
                                /\ esc_beds(verdict.Action) = 1
            /\ (t0 = 100 /\ args.limits.rule_in = 52
                  /\ args.limits.rule_out <= 100) =>
                   /\ verdict.Outcome = "Rule In"
                   /\ verdict.Wait = 60
                   /\ esc_beds(verdict.Action) = 0

\* A patient meeting both conditions (t0 = 3 < rule_out = 5, delta = 10 > 5)
\* has been evaluated and ruled out.
C2_TieBreakWitness ==
    /\ pc = "evaluated"
    /\ draw.result_ready
    /\ p.T0 = 3 /\ p.T1 = 13
    /\ args.limits.rule_out = 5
    /\ verdict.Outcome = "Rule Out"

\* C3: in both runners, every record whose outcome is Clinical Rescue has
\* Wait = 120, counts as one blocked bed and carries an Admit action.
C3_ClinicalRescueWait120 ==
    \A k \in RowsWith({"Clinical Rescue"}) :
        /\ results_log[k].Wait = 120
        /\ startswith_Admit(results_log[k].Action)
        /\ InESC => esc_beds(results_log[k].Action) = 1
        /\ InWF => wf_beds(results_log[k].Action, 0) = 1

ClaimedOutcomes ==
    { "Rule Out", "Rule Out (Single Sample)", "Rule Out (Serial)", "Rule In",
      "Grey Zone", "Observe", "Pending", "Clinical Rescue" }

\* C4 as stated: every record's outcome is one of the Rule Out variants,
\* Rule In, Grey Zone/Observe, Pending, Clinical Rescue.
C4_OutcomeInClaimedSet ==
    \A k \in Rows : results_log[k].Outcome \in ClaimedOutcomes

\* C4 as amended: every record, during and after a shift run, carries one
\* outcome of the claimed set or Missed UA; none is empty.
C4_OutcomeInAmendedSet ==
    /\ \A k \in Rows :
         results_log[k].Outcome \in ClaimedOutcomes \cup {"Missed UA"}
    /\ pc \in {"esc_returned", "wf_returned"} =>
         /\ Len(returned.df) = daily_cp_volume
         /\ \A k \in 1..Len(returned.df) :
              returned.df[k].Outcome \in ClaimedOutcomes \cup {"Missed UA"}

\* A shift has returned a table holding a Missed UA record.
C4_MissedUAWitness ==
    /\ pc = "esc_returned"
    /\ \E k \in 1..Len(returned.df) : returned.df[k].Outcome = "Missed UA"


SingleSample == {"Rule Out (Single Sample)"}

SerialOutcomes ==
    {"Clinical Rescue", "Rule Out (Serial)", "Rule In", "Grey Zone"}

\* Turnaround of the platform of the waterfall run in progress.
T == IF args.platform_type = "Point of Care (POC)" THEN 20 ELSE 90

\* Price of one kit on the platform of the waterfall run in progress.
UnitCost == IF args.platform_type = "Point of Care (POC)" THEN 30 ELSE 5

\* C7: in the waterfall, a patient exits as Rule Out (Single Sample) with no
\* blocked bed exactly when use_single_sample is enabled and t0 < rule_out
\* and heart_score <= 3; every other patient, and every patient when
\* use_single_sample is disabled, goes on to serial 0h/1h testing.
C7_SingleSampleExactly ==
    InWF =>
        /\ \A k \in Rows :
             LET r == results_log[k]
                 exits == /\ args.use_single_sample
                          /\ r.T0 < args.limits.rule_out
                          /\ r.HEART_Score <= 3
             IN  /\ (r.Outcome \in SingleSample) <=> exits
                 /\ exits => /\ wf_beds(r.Action, 0) = 0
                             /\ r.Wait \in {T, T + 60}
                 /\ ~exits => /\ r.Outcome \in SerialOutcomes
                              /\ r.Wait \in {2 * T + 60, 2 * T + 120}
        /\ beds_blocked_count <= Cardinality(RowsWith(SerialOutcomes))

\* The patient of the claim's example (t0 = 3, heart_score = 2) has gone
\* through the waterfall with single-sample enabled and rule_out = 5, and
\* has left by the single-sample exit with no bed blocked.
C7_SingleSampleWitness ==
    /\ pc = "wf_loop"
    /\ args.use_single_sample
    /\ args.limits.rule_out = 5
    /\ Len(results_log) = 1
    /\ results_log[1].T0 = 3
    /\ results_log[1].HEART_Score = 2
    /\ results_log[1].Outcome \in SingleSample
    /\ beds_blocked_count = 0

\* The waits the waterfall can record.
C8_Waits ==
    \A k \in Rows :
        /\ results_log[k].Outcome \in SingleSample =>
               results_log[k].Wait \in {T, T + 60}
        /\ results_log[k].Outcome \notin SingleSample =>
               results_log[k].Wait \in {2 * T + 60, 2 * T + 120}

\* C8 as stated: every wait is T or T+60 for a single-sample exit and 2T+60
\* or 2T+120 for a serial patient, and among serial patients only Grey Zone
\* patients block a bed.
C8_OnlyGreyZoneBlocks ==
    InWF =>
        /\ C8_Waits
        /\ beds_blocked_count = Cardinality(RowsWith({"Grey Zone"}))

\* C8 as amended: the same waits, and the patients who block a bed are the
\* Grey Zone and the Clinical Rescue patients.
C8_WaitsAndBeds ==
    InWF =>
        /\ C8_Waits
        /\ beds_blocked_count =
               Cardinality(RowsWith({"Grey Zone", "Clinical Rescue"}))

\* A waterfall run has recorded a Clinical Rescue patient who waited
\* 2T+120 and blocks a bed.
C8_RescueBlocksWitness ==
    /\ pc = "wf_returned"
    /\ \E k \in Rows : /\ results_log[k].Outcome = "Clinical Rescue"
                       /\ results_log[k].Wait = 2 * T + 120
    /\ beds_blocked_count >= 1

\* C9: the accumulated kit cost of a waterfall run is unit_cost x
\* (patients + patients who did not take the single-sample exit), after
\* every iteration and in the returned financials; with use_single_sample
\* disabled it is 2 x unit_cost x patient_count.
C9_KitCost ==
    InWF =>
        LET serial == Cardinality(Rows \ RowsWith(SingleSample))
        IN  /\ total_kit_cost = UnitCost * (Len(results_log) + serial)
            /\ pc = "wf_returned" =>
                 /\ returned.financials.test_kit_cost =
                        UnitCost * (returned.daily_cp_volume + serial)
                 /\ ~args.use_single_sample =>
                        returned.financials.test_kit_cost =
                            2 * UnitCost * returned.daily_cp_volume

\* A Central Lab run of two patients, the first sent to serial testing and
\* the second leaving by the single-sample exit, has returned the cost of
\* three kits.
C9_ThreeKitsWitness ==
    /\ pc = "wf_returned"
    /\ args.platform_type = "Central Lab"
    /\ returned.daily_cp_volume = 2
    /\ RowsWith(SingleSample) = {2}
    /\ returned.financials.test_kit_cost = 15

\* The numeric Rule Out condition, on a record.
NumericRuleOut(r) ==
    r.T0 < args.limits.rule_out \/ (r.T0 < 12 /\ r.T1 - r.T0 < 3)

\* Records of Unstable Angina patients with heart_score >= 4 whose numeric
\* result is Rule Out (in the ESC runner: whose result was ready).
HighRiskRuledOut ==
    { k \in Rows : /\ results_log[k].Condition = "Unstable Angina"
                   /\ results_log[k].HEART_Score >= 4
                   /\ NumericRuleOut(results_log[k])
                   /\ results_log[k].Outcome # "Pending" }

LastOutcome == results_log'[Len(results_log')].Outcome

\* The draws that make the next patient an Unstable Angina patient with
\* heart_score >= 4 (every such patient meets the numeric Rule Out
\* condition: T0 <= 10 and delta <= 2).
HighRiskDraws ==
    { d \in patient_draws(args.acs_prevalence) :
        /\ Condition(d.rand, args.acs_prevalence) = "Unstable Angina"
        /\ d.heart_score >= 4
        /\ d.base_trop < 12 /\ d.delta < 3 }

\* C10: an Unstable Angina patient with heart_score >= 4 whose numeric
\* result is Rule Out is either overridden to Clinical Rescue and admitted
\* (one bed), or left as a discharge (Missed UA / Rule Out (Serial)) with a
\* Discharge action and no bed; and for every such patient about to be
\* simulated both continuations are possible.
C10_SafetyNetBothWays ==
    /\ \A k \in HighRiskRuledOut :
         LET r == results_log[k]
         IN  \/ /\ r.Outcome = "Clinical Rescue"
                /\ startswith_Admit(r.Action)
             \/ /\ r.Outcome = (IF InESC THEN "Missed UA"
                                ELSE "Rule Out (Serial)")
                /\ r.Action \in { "Discharge (GP Surgery)",
                                  "Discharge (Virtual Ward)",
                                  "Discharge (RACPC Clinic)" }
    /\ HighRiskRuledOut = Rows =>
         beds_blocked_count = Cardinality(RowsWith({"Clinical Rescue"}))
    /\ (pc = "esc_loop" /\ Len(results_log) < daily_cp_volume) =>
         /\ HighRiskDraws # {}
         /\ \A d \in HighRiskDraws :
              /\ ENABLED (\E u1 \in random_near(
                                         args.strategy_settings.availability),
                               u2 \in random_near(50) :
                            /\ ESC_Step(d, u1, u2)
                            /\ LastOutcome = "Clinical Rescue")
              /\ ENABLED (\E u1 \in random_near(
                                         args.strategy_settings.availability),
                               u2 \in random_near(50) :
                            /\ ESC_Step(d, u1, u2)
                            /\ LastOutcome = "Missed UA")
    /\ (pc = "wf_loop" /\ Len(results_log) < daily_cp_volume) =>
         /\ HighRiskDraws # {}
         /\ \A d \in HighRiskDraws :
              /\ ENABLED (\E u1 \in random_near(
                                         AVAILABILITY(args.platform_type)),
                               u2 \in random_near(50) :
                            /\ Waterfall_Step(d, u1, u2)
                            /\ LastOutcome = "Clinical Rescue")
              /\ ENABLED (\E u1 \in random_near(
                                         AVAILABILITY(args.platform_type)),
                               u2 \in random_near(50) :
                            /\ Waterfall_Step(d, u1, u2)
                            /\ LastOutcome = "Rule Out (Serial)")

\* An ESC run has returned with a high-risk Unstable Angina patient left as
\* a Missed UA discharge and no bed blocked.
C10_MissedWitness ==
    /\ pc = "esc_returned"
    /\ \E k \in HighRiskRuledOut : results_log[k].Outcome = "Missed UA"
    /\ beds_blocked_count = 0


\* C5: once a run has cached its results, whenever the current value of a
\* configuration option differs from the value that run used, the report
\* tab shows "Settings changed." instead of presenting the cached results.
\* (A script run that ends in tab1 renders no report tab.)
C5_StaleResultsGuard ==
    (/\ pc = "main.py"
     /\ session_state.simulation_results # None
     /\ run_widgets # widgets
     /\ page.tab3 # "not rendered")
        => page.tab3 = "Settings changed."

\* C6: with cached results and a patient count of 0 as divisor, the block
\* rate is computed without a division by zero.
C6_NoDivisionByZero ==
    (/\ pc = "chest_pain_sim.py"
     /\ session_state.simulation_results # None
     /\ cp_volume(widgets.daily_census, widgets.chest_pain_pct) = 0)
        => page.tab3 # "ZeroDivisionError"


\* C11: every generated patient has whole, non-negative t0 and t1 with
\* t1 = t0 + delta, delta >= 0, hence t1 >= t0.
C11_TroponinOrdered ==
    pc = "generated" =>
        /\ p.T0 \in Nat /\ p.T1 \in Nat
        /\ draw.delta \in Nat
        /\ p.T1 = p.T0 + draw.delta
        /\ p.T1 >= p.T0

C11_RisingWitness ==
    /\ pc = "generated"
    /\ p.Condition = "NSTEMI"
    /\ p.T0 = 800 /\ p.T1 = 810

BandRank(condition) ==
    CASE condition = "NSTEMI" -> 0
      [] condition = "Unstable Angina" -> 1
      [] condition = "Chronic Injury" -> 2
      [] condition = "Non-Cardiac" -> 3

BandOf(r, a) ==
    CASE r < a -> "NSTEMI"
      [] a <= r /\ r < a + 5 -> "Unstable Angina"
      [] a + 5 <= r /\ r < a + 15 -> "Chronic Injury"
      [] a + 15 <= r -> "Non-Cardiac"

BandWidth(condition) ==
    Cardinality({ r \in GenRand :
                    Condition(r, args.acs_prevalence) = condition })

Min(x, y) == IF x <= y THEN x ELSE y

Max(x, y) == IF x >= y THEN x ELSE y

\* C12 as stated: for every acs_prevalence in 0..100 the draws that yield
\* Unstable Angina have width 5 and those that yield Chronic Injury have
\* width 10.
C12_BandWidthsFixed ==
    pc \in {"gen", "generated"} =>
        /\ BandWidth("Unstable Angina") = 5
        /\ BandWidth("Chronic Injury") = 10

\* C12 amended: the condition is chosen by the contiguous bands [0, p),
\* [p, p+5), [p+5, p+15) and the remainder, monotonically in r; within
\* [0, 100) the Unstable Angina band has width min(5, 100 - p) and the
\* Chronic Injury band width min(10, max(0, 95 - p)), which are 5 and 10
\* exactly when p <= 85.
C12_BandsContiguous ==
    pc = "generated" =>
        LET a == args.acs_prevalence
        IN  /\ p.Condition = BandOf(draw.rand, a)
            /\ \A r2 \in GenRand :
                 r2 >= draw.rand =>
                    BandRank(Condition(r2, a)) >= BandRank(p.Condition)
            /\ BandWidth("Unstable Angina") = Min(5, 100 - a)
            /\ BandWidth("Chronic Injury") = Min(10, Max(0, 95 - a))
            /\ (a <= 85 <=> (/\ BandWidth("Unstable Angina") = 5
                             /\ BandWidth("Chronic Injury") = 10))

C12_AnginaEdgeWitness ==
    /\ pc = "generated"
    /\ args.acs_prevalence = 15
    /\ draw.rand = 19
    /\ p.Condition = "Unstable Angina"

\* C13: with acs_prevalence in 85..100 no draw yields Non-Cardiac and
\* every draw yields exactly one of the other three conditions.
C13_NonCardiacClamped ==
    (pc \in {"gen", "generated"} /\ args.acs_prevalence >= 85) =>
        /\ BandWidth("Non-Cardiac") = 0
        /\ BandWidth("NSTEMI") + BandWidth("Unstable Angina")
               + BandWidth("Chronic Injury") = 100
        /\ pc = "generated" =>
             p.Condition \in {"NSTEMI", "Unstable Angina", "Chronic Injury"}

C13_LastDrawWitness ==
    /\ pc = "generated"
    /\ args.acs_prevalence = 85
    /\ draw.rand = 99
    /\ p.Condition = "Chronic Injury"


Returned == pc \in {"esc_returned", "wf_returned"}

\* C14: for every census >= 0 and chest_pain_pct in 0..100 the runner
\* simulates exactly floor(census * chest_pain_pct / 100) patients and
\* returns that number as the patient count.
C14_PatientCountIsFloor ==
    Returned =>
        LET n == (args.volume * args.chest_pain_pct) \div 100
        IN  /\ returned.daily_cp_volume = n
            /\ returned.financials.test_count = n
            /\ Len(returned.df) = n

\* C17: the table of a shift that returns patient count N has exactly N
\* records, and record k (in table order) has id k.
C17_IdsAreOneToN ==
    /\ \A k \in 1..Len(results_log) : results_log[k].Patient_ID = k
    /\ Returned =>
         /\ Len(returned.df) = returned.daily_cp_volume
         /\ \A k \in 1..returned.daily_cp_volume :
              returned.df[k].Patient_ID = k

C17_TwentyFiveWitness ==
    /\ Returned
    /\ args.volume = 250 /\ args.chest_pain_pct = 10
    /\ Len(returned.df) = 25
    /\ returned.df[25].Patient_ID = 25


AppCached == pc = "main.py" /\ session_state.simulation_results # None

SimCached ==
    pc = "chest_pain_sim.py" /\ session_state.simulation_results # None

\* C15: a run of zero patients followed by the cost finalisation completes
\* and stores an empty table and an aggregate that is zero throughout.
C15_ZeroPatientsZeroAggregate ==
    (/\ AppCached
     /\ cp_volume(run_widgets.daily_census, run_widgets.chest_pain_pct) = 0)
        => /\ session_state.simulation_results = << >>
           /\ session_state.financials.waiting_minutes = 0
           /\ session_state.financials.beds_blocked = 0
           /\ session_state.financials.test_count = 0
           /\ session_state.financials.test_kit_cost = 0
           /\ session_state.financials.waiting_cost = Amount(0, 0)
           /\ session_state.financials.total_cost = Amount(0, 0)
           /\ session_state.last_run_settings = current_sig(run_widgets)

C15_EmptyRunWitness ==
    /\ AppCached
    /\ run_widgets.chest_pain_pct = 0
    /\ session_state.simulation_results = << >>
    /\ session_state.financials.total_cost = Amount(0, 0)

RECURSIVE SumWait(_)
SumWait(log) ==
    IF log = << >> THEN 0 ELSE log[1].Wait + SumWait(Tail(log))

KitsOf(row) == IF row.Outcome = "Rule Out (Single Sample)" THEN 1 ELSE 2

RECURSIVE SumKits(_)
SumKits(log) ==
    IF log = << >> THEN 0 ELSE KitsOf(log[1]) + SumKits(Tail(log))

\* consultant_rate + nurse_rate of the run, in pounds per hour.
StaffRate(w) == w.consultant_cost + w.nurse_cost

\* The stored amount x stands for sixtieths / 60 pounds and differs from it
\* by at most `halves` half units in the last place of that value.
Within(x, sixtieths, halves) ==
    /\ x.sixtieths = sixtieths
    /\ IF sixtieths < 60 THEN x.error = 0
       ELSE 2 * (IF x.error < 0 THEN 0 - x.error ELSE x.error)
                <= halves * 15 * pow2(floor_log2(sixtieths \div 60, 0))

\* The aggregate the stored costs were finalised from: waiting minutes and
\* total test cost, recomputed from the stored table.
Aggregate ==
    LET df == session_state.simulation_results
    IN  IF pc = "main.py"
        THEN [ wait |-> SumWait(df),
               tests |-> SumKits(df) * COST_PER_TEST(run_widgets.platform_type) ]
        ELSE [ wait |-> SumWait(df),
               tests |-> Len(df) * test_cost(run_widgets.test_modality) ]

\* The stored total cost.
StoredTotal ==
    IF pc = "main.py" THEN session_state.financials.total_cost
    ELSE session_state.financials.total

\* C16 as claimed: after finalisation total_cost is
\* total_wait_minutes * (consultant_rate + nurse_rate) / 60 + total test
\* cost: the stored double is the double nearest to that value.
C16_TotalCostExact ==
    (AppCached \/ SimCached) =>
        Within(StoredTotal,
               Aggregate.wait * StaffRate(run_widgets) + 60 * Aggregate.tests,
               1)

\* C16: after finalisation total_cost is the double that
\* total_wait_minutes * ((consultant_rate + nurse_rate) / 60) + total test
\* cost evaluates to, the quotient, the product and the sum each rounded to
\* a double; it lies within two units in the last place of the unrounded
\* value and is that value when the two rates add up to a multiple of 15.
\* The total test cost is the kit cost accumulated over the table in the
\* waterfall page and unit cost * patient count in the single-test page.
\* The stored total is fixed by the aggregate and the two rates.
C16_TotalCostRounded ==
    (AppCached \/ SimCached) =>
        LET f == session_state.financials
            rate == StaffRate(run_widgets)
            waiting_cost == double_times(Aggregate.wait, double_div60(rate))
        IN  /\ pc = "main.py" =>
                  /\ f.waiting_minutes = Aggregate.wait
                  /\ f.test_kit_cost = Aggregate.tests
            /\ pc = "chest_pain_sim.py" => f.test_cost = Aggregate.tests
            /\ f.waiting_cost = waiting_cost
            /\ StoredTotal = double_plus(waiting_cost, Aggregate.tests)
            /\ Within(StoredTotal,
                      Aggregate.wait * rate + 60 * Aggregate.tests, 4)
            /\ rate % 15 = 0 => StoredTotal.error = 0

\* Two Central Lab patients have waited 150 and 240 minutes at rates 100
\* and 30: the stored total is one unit in the last place below the 860
\* pounds of the unrounded value.
C16_RoundedTotalWitness ==
    /\ AppCached
    /\ Len(session_state.simulation_results) = 2
    /\ session_state.financials.waiting_minutes = 390
    /\ StaffRate(run_widgets) = 130
    /\ session_state.financials.test_kit_cost = 15
    /\ session_state.financials.total_cost = Amount(860 * 60, 0 - 15 * pow2(9))


NoLibrary == pc \in {"main.py", "chest_pain_sim.py"} /\ ~args.HAS_REPORTLAB

\* What the page would show in the same state with the library installed.
PageWithLibrary ==
    IF pc = "main.py" THEN app_script(widgets, session_state, TRUE)
    ELSE sim_script(widgets, session_state, TRUE)

MissingMessage ==
    IF pc = "main.py" THEN "PDF Library Missing (reportlab)."
    ELSE "PDF Library missing (reportlab)."

\* Without the PDF library the page differs from the page with the library
\* only in the export: where the report download would be offered the
\* missing-library message is shown, and the letter download is omitted;
\* the generator returns no document.
ExportUnavailable ==
    NoLibrary =>
        /\ page.tab1 = PageWithLibrary.tab1
        /\ page.tab3 # "Download PDF"
        /\ IF PageWithLibrary.tab3 = "Download PDF"
           THEN page.tab3 = MissingMessage
           ELSE page.tab3 = PageWithLibrary.tab3
        /\ pc = "main.py" =>
             /\ generate_pdf(args.HAS_REPORTLAB, session_state.financials)
                    = None
             /\ page.tab2 # "Download Discharge Letter (PDF)"

\* C19: with the PDF renderer absent an export shows the missing-library
\* message (or omits the download) in every page state and raises nothing
\* of its own, and a script run that is not a simulation run leaves the
\* cached results and their signature as they were.
C19_ExportUnavailable ==
    /\ []ExportUnavailable
    /\ [][(NoLibrary /\ changes' # changes)
             => session_state' = session_state]_vars

C19_MissingMessageWitness ==
    /\ NoLibrary
    /\ session_state.simulation_results # None
    /\ page.tab3 = MissingMessage
    /\ changes = MaxChanges


BothConditions ==
    RuleOutCondition(p, args.limits) /\ RuleInCondition(p, args.limits)

Contradictory == args.limits.rule_out >= args.limits.rule_in

\* C18 as stated: a patient meets the Rule Out and the Rule In condition
\* at the same time only when rule_out is not below rule_in.
C18_OverlapOnlyIfContradictory ==
    (pc = "evaluated" /\ p.T0 >= 0 /\ p.T1 >= p.T0 /\ BothConditions)
        => Contradictory

\* C18 amended: a patient meets both conditions only when t0 lies strictly
\* between rule_in and rule_out (a contradictory configuration), or
\* t0 < rule_out and the rise is above 5, or rule_in < t0 < 12 and the rise
\* is below 3; when the result is ready Rule Out wins.
C18_OverlapCases ==
    (pc = "evaluated" /\ p.T0 >= 0 /\ p.T1 >= p.T0 /\ BothConditions)
        => /\ \/ (/\ args.limits.rule_in < p.T0
                  /\ p.T0 < args.limits.rule_out
                  /\ Contradictory)
              \/ (p.T0 < args.limits.rule_out /\ p.T1 - p.T0 > 5)
              \/ (/\ args.limits.rule_in < p.T0 /\ p.T0 < 12
                  /\ p.T1 - p.T0 < 3)
           /\ draw.result_ready => verdict.Outcome = "Rule Out"

C18_LowRuleInWitness ==
    /\ pc = "evaluated"
    /\ draw.result_ready
    /\ BothConditions
    /\ ~Contradictory
    /\ args.limits.rule_in = 5 /\ args.limits.rule_out = 0
    /\ p.T0 = 11 /\ p.T1 = 13
    /\ verdict.Outcome = "Rule Out"


\* The Admit and Bed Blocked actions of the two runners.
BedActions ==
    { "Bed Blocked (Wait)", "Admit AMU (Serial Trop)",
      "Admit (High Risk Story)", "Admit (High Risk)",
      "Admit AMU (Observe)" }

BedRows(log) == { k \in 1..Len(log) : log[k].Action \in BedActions }

\* C20: at the loop head after every iteration, and in the returned
\* aggregate, waiting_minutes is the sum of the Wait fields of the records
\* appended so far and beds_blocked the number of those records whose
\* action is an Admit or Bed Blocked action, which is at most the number
\* of patients; both are 0 before the first patient.
C20_AggregateMatchesRecords ==
    /\ (InESC \/ InWF) =>
         /\ total_wait_minutes = SumWait(results_log)
         /\ beds_blocked_count = Cardinality(BedRows(results_log))
         /\ beds_blocked_count <= Len(results_log)
         /\ Len(results_log) <= daily_cp_volume
         /\ results_log = << >> =>
              total_wait_minutes = 0 /\ beds_blocked_count = 0
    /\ Returned =>
         /\ returned.df = results_log
         /\ returned.financials.waiting_minutes = SumWait(returned.df)
         /\ returned.financials.beds_blocked
                = Cardinality(BedRows(returned.df))
         /\ returned.financials.beds_blocked <= returned.daily_cp_volume

\* An ESC shift of two patients: the first admitted for observation after
\* 180 minutes, the second an Unstable Angina patient discharged after 20.
C20_TwoPatientsWitness ==
    /\ pc = "esc_returned"
    /\ Len(returned.df) = 2
    /\ returned.df[1].Outcome = "Observe"
    /\ returned.df[2].Outcome = "Missed UA"
    /\ returned.financials.beds_blocked = 1
    /\ returned.financials.waiting_minutes = 200


GeneratedFields ==
    IF InESC
    THEN {"Patient_ID", "Condition", "HEART_Score", "T0", "T1", "T3"}
    ELSE {"Patient_ID", "Condition", "HEART_Score", "T0", "T1"}

\* Record k of the table carries what the generator produced from the
\* draws of iteration k, and nothing but Outcome, Action and Wait besides.
RecordKeepsGenerated(k) ==
    LET r == results_log[k]
        d == draw[k]
    IN  /\ DOMAIN r = GeneratedFields \cup {"Outcome", "Action", "Wait"}
        /\ r.Patient_ID = k
        /\ r.Condition = BandOf(d.rand, args.acs_prevalence)
        /\ r.HEART_Score = d.heart_score
        /\ r.T0 = d.base_trop
        /\ r.T1 = d.base_trop + d.delta

\* C21: in the table of either runner the id, condition, heart_score, t0
\* and t1 of every record are the generator's values, the evaluation having
\* added only outcome, action and wait; and a step of the run changes no
\* record appended before it.
C21_RecordFrame ==
    /\ []((InESC \/ InWF) =>
            /\ Len(draw) = Len(results_log)
            /\ \A k \in 1..Len(results_log) : RecordKeepsGenerated(k)
            /\ Returned => returned.df = results_log)
    /\ [][/\ Len(results_log') >= Len(results_log)
          /\ \A k \in 1..Len(results_log) :
               results_log'[k] = results_log[k]]_vars

\* A waterfall shift with the single-sample exit disabled has returned two
\* records: a Chronic Injury patient in the grey zone and a rising NSTEMI
\* patient, each with the troponins drawn for it.
C21_TwoRecordsWitness ==
    /\ pc = "wf_returned"
    /\ ~args.use_single_sample
    /\ Len(returned.df) = 2
    /\ draw[1].base_trop = 20 /\ draw[1].delta = 3
    /\ returned.df[1].T0 = 20 /\ returned.df[1].T1 = 23
    /\ returned.df[1].Outcome = "Grey Zone"
    /\ draw[2].base_trop = 800 /\ draw[2].delta = 100
    /\ returned.df[2].T1 = 900
    /\ returned.df[2].Outcome = "Rule In"


RowsOf(condition) == { k \in Rows : results_log[k].Condition = condition }

\* C22: with rule_out in 0..20, every NSTEMI patient in the table of either
\* runner (heart_score >= 5, t0 >= 20, rise >= 10) is recorded as Rule In:
\* in the ESC runner unless the result was not ready (Pending), in the
\* waterfall runner always, with single-sample exit enabled or not.
C22_NstemiRuledIn ==
    ((InESC \/ InWF) /\ args.limits.rule_out \in 0..20) =>
        \A k \in RowsOf("NSTEMI") :
            LET r == results_log[k]
            IN  /\ r.HEART_Score >= 5 /\ r.T0 >= 20 /\ r.T1 - r.T0 >= 10
                /\ IF InESC
                   THEN /\ r.Outcome \in {"Rule In", "Pending"}
                        /\ r.Outcome = "Pending" <=> r.Wait = 150
                        /\ r.Outcome = "Rule In" =>
                             r.Action = "Cath Lab/Cardiology"
                   ELSE /\ r.Outcome = "Rule In"
                        /\ r.Action = "Cath Lab"

\* An NSTEMI patient with t0 = 20 has gone through the waterfall with
\* rule_out = 20 and the single-sample exit enabled, and is ruled in.
C22_ThresholdEdgeWitness ==
    /\ pc = "wf_loop"
    /\ args.use_single_sample
    /\ args.limits.rule_out = 20
    /\ Len(results_log) = 1
    /\ results_log[1].Condition = "NSTEMI"
    /\ results_log[1].HEART_Score = 7
    /\ results_log[1].T0 = 20
    /\ results_log[1].T1 = 57
    /\ results_log[1].Outcome = "Rule In"

\* C23: every Unstable Angina patient in the table (heart_score >= 4,
\* t0 < 12, rise < 3, so the numeric Rule Out condition holds whatever the
\* thresholds) is recorded, in the ESC runner, as Clinical Rescue or Missed
\* UA unless the result was not ready, and in the waterfall runner as
\* Clinical Rescue or Rule Out (Serial): never single-sample exit, Rule In,
\* Observe, Grey Zone or plain Rule Out.
C23_AnginaNeverRuledIn ==
    (InESC \/ InWF) =>
        \A k \in RowsOf("Unstable Angina") :
            LET r == results_log[k]
            IN  /\ r.HEART_Score >= 4 /\ r.T0 < 12 /\ r.T1 - r.T0 < 3
                /\ IF InESC
                   THEN /\ r.Outcome \in
                            {"Clinical Rescue", "Missed UA", "Pending"}
                        /\ r.Outcome = "Pending" <=> r.Wait = 150
                   ELSE r.Outcome \in {"Clinical Rescue", "Rule Out (Serial)"}

\* An Unstable Angina patient with t0 = 5 below rule_out = 13 has gone
\* through the waterfall with the single-sample exit enabled and has been
\* sent to serial testing.
C23_SerialAnginaWitness ==
    /\ pc = "wf_loop"
    /\ args.use_single_sample
    /\ args.limits.rule_out = 13
    /\ Len(results_log) = 1
    /\ results_log[1].Condition = "Unstable Angina"
    /\ results_log[1].HEART_Score = 6
    /\ results_log[1].T0 = 5
    /\ results_log[1].T1 = 6
    /\ results_log[1].Outcome = "Rule Out (Serial)"

============================================================================
